---------------------------- MODULE Spec2Model ----------------------------
(***************************************************************************)
(* A model of github.com/sbreitf1/fs: the FileSystem facade over a         *)
(* capability-tiered driver (NewWithDriver, the Can* flags, the gated      *)
(* operations) and the recursive directory walker (Walk / walk).           *)
(*                                                                         *)
(* The facade keeps no state of its own besides the four capability flags, *)
(* the four driver references and LineSeparator.  The driver is the        *)
(* environment: it serves a directory tree and may fail any call.  Every   *)
(* driver method the facade invokes is recorded, in order, in "calls".     *)
(***************************************************************************)
EXTENDS Integers, Sequences, FiniteSets, TLC

VARIABLES
    phase,      \* the caller's position: "init", "ready" (a facade in hand),
                \* "walking" (inside Walk), "called" (a call returned), "panicked"
    ctor,       \* how the facade was made: "", "NewWithDriver", "New", "ZeroValue"
    driverArg,  \* the value handed to NewWithDriver
    fs,         \* the FileSystem struct
    flags0,     \* the four flags as the constructor stored them (history)
    tree,       \* the directory tree the driver serves (listing of the root)
    bytes,      \* the bytes each file of the tree holds, by path
    calls,      \* the driver methods invoked by the current / last facade call
    last,       \* the last facade call: its name, input and returned error / value
    walkArgs,   \* the arguments of the running Walk
    stack,      \* the activation records of the recursive walk
    ret,        \* the error a returned walk activation handed to its caller
    events      \* what the current / last Walk invoked, in order: the callbacks
                \* and its ReadDir calls

vars == <<phase, ctor, driverArg, fs, flags0, tree, bytes, calls, last, walkArgs, stack, ret, events>>

---------------------------------------------------------------------------
(* Bounds of the model. *)

\* the largest number of entries (files and directories) in the served tree
MaxNodes == 3
\* the largest number of entries in the tree served to the other facade calls
MaxListed == 2
\* the largest index of a driver call that the environment makes fail
MaxFail == 3

\* entry names the driver lists
Names == {"a", "b"}

---------------------------------------------------------------------------
(* Errors.  errors.Error values are told apart by kind, argument and, for  *)
(* errors made by a callback or the driver, the invocation that made them. *)

NilErr == [kind |-> "nil", arg |-> "", id |-> 0, path |-> <<>>]
\* ErrNotSupported.Args(name).Make()
ErrNotSupported(name) ==
    [kind |-> "ErrNotSupported", arg |-> name, id |-> 0, path |-> <<>>]
\* ErrNotExists.Args(src).Make()
ErrNotExists(p) == [kind |-> "ErrNotExists", arg |-> "", id |-> 0, path |-> p]
\* Err.Msg(msg).Make().Cause(cause)
Err(msg) == [kind |-> "Err", arg |-> msg, id |-> 0, path |-> <<>>]
\* an error made by the driver in its n-th call of the current facade call
DriverError(method, n) ==
    [kind |-> "DriverError", arg |-> method, id |-> n, path |-> <<>>]
\* an error made by a callback in the n-th callback invocation of the walk
CallbackError(which, n) ==
    [kind |-> "CallbackError", arg |-> which, id |-> n, path |-> <<>>]
\* a method call on a nil interface value
NilPanic == [kind |-> "panic", arg |-> "nil dereference", id |-> 0, path |-> <<>>]

---------------------------------------------------------------------------
(* The capability interfaces: each is the set of methods it requires,      *)
(* embedded interfaces included.                                           *)

NavigationFileSystemDriver == {"Exists", "IsFile", "IsDir", "Stat", "ReadDir"}

ReadFileSystemDriver == NavigationFileSystemDriver \cup {"OpenFile"}

\* the read-write interface declared without embedding the read interface
ReadWriteWithoutEmbedding ==
    {"CreateDirectory", "DeleteFile", "DeleteDirectory", "MoveFile", "MoveDir"}

ReadWriteFileSystemDriver ==
    ReadFileSystemDriver \cup
        {"CreateDirectory", "DeleteFile", "DeleteDirectory", "MoveFile", "MoveDir"}

TempFileSystemDriver == ReadWriteFileSystemDriver \cup {"GetTempFile", "GetTempDir"}

\* A Go value handed to NewWithDriver(driver interface{}): nil, or a value
\* with a method set.
NilDriver == [isNil |-> TRUE, methods |-> {}]

Value(m) == [isNil |-> FALSE, methods |-> m]

\* The method groups a driver type may or may not implement.
MethodGroups ==
    { NavigationFileSystemDriver,
      {"OpenFile"},
      {"CreateDirectory", "DeleteFile", "DeleteDirectory", "MoveFile", "MoveDir"},
      {"GetTempFile", "GetTempDir"} }

\* The driver values tried: nil, a non-driver value such as a string (no
\* methods), every union of method groups, and a full driver lacking Stat.
DriverValues ==
    {NilDriver}
        \cup {Value(UNION g) : g \in SUBSET MethodGroups}
        \cup {Value(TempFileSystemDriver \ {"Stat"})}

\* driver.(I): the type assertion of a value to interface I, its ok result
TypeAssert(d, iface) == ~d.isNil /\ iface \subseteq d.methods

---------------------------------------------------------------------------
(* The directory tree.  A listing is a sequence of entries; a directory    *)
(* entry carries the listing of its own children.  A path is the sequence  *)
(* of names leading from the root of the tree.                             *)

File(n) == [name |-> n, isDir |-> FALSE, sub |-> <<>>]

Dir(n, l) == [name |-> n, isDir |-> TRUE, sub |-> l]

NamesOf(l) == {l[i].name : i \in 1..Len(l)}

\* every listing with at most n entries in all, names distinct per directory
RECURSIVE Listings(_)
Listings(n) ==
    IF n = 0 THEN {<<>>}
    ELSE LET Entries(k) ==
                 {File(nm) : nm \in Names}
                     \cup {Dir(nm, l) : nm \in Names, l \in Listings(k - 1)}
             With(k, e) ==
                 {<<e>> \o r : r \in {r \in Listings(n - k) : e.name \notin NamesOf(r)}}
         IN  {<<>>} \cup
             UNION {UNION {With(k, e) : e \in Entries(k)} : k \in 1..n}

\* FileInfo of an entry: Name() and IsDir()
FileInfo(e) == [name |-> e.name, isDir |-> e.isDir]

NoNode == [found |-> FALSE, isDir |-> FALSE, sub |-> <<>>]

\* the node at path p below a directory with listing l
RECURSIVE NodeAt(_, _)
NodeAt(l, p) ==
    IF p = <<>> THEN [found |-> TRUE, isDir |-> TRUE, sub |-> l]
    ELSE LET hit == {i \in 1..Len(l) : l[i].name = Head(p)}
         IN  IF hit = {} THEN NoNode
             ELSE LET e == l[CHOOSE i \in hit : TRUE]
                  IN  IF Len(p) = 1
                      THEN [found |-> TRUE, isDir |-> e.isDir, sub |-> e.sub]
                      ELSE IF e.isDir THEN NodeAt(e.sub, Tail(p)) ELSE NoNode

\* path.Join(dir, f.Name()) for a name without separators
PathJoin(dir, name) == Append(dir, name)

\* the paths handed to facade calls
Paths == {<<>>, <<"a">>, <<"b">>, <<"a", "b">>}

\* no file holds a byte
NoContent == [p \in Paths |-> <<>>]

---------------------------------------------------------------------------
(* OpenFlags: an int whose two low bits are the access mode.               *)

OpenReadOnly == 0
OpenWriteOnly == 1
OpenReadWrite == 2
\* the os.O_* modifier bits the setters or in
O_CREATE == 64
O_EXCL == 128
O_TRUNC == 512
O_APPEND == 1024
O_SYNC == 1052672

\* int(flag) | bits, for bits a sum of distinct powers of two
RECURSIVE BitOr(_, _)
BitOr(a, b) ==
    IF a = 0 THEN b
    ELSE IF b = 0 THEN a
    ELSE 2 * BitOr(a \div 2, b \div 2) + (IF a % 2 = 1 \/ b % 2 = 1 THEN 1 ELSE 0)

RECURSIVE BitAnd(_, _)
BitAnd(a, b) ==
    IF a = 0 \/ b = 0 THEN 0
    ELSE 2 * BitAnd(a \div 2, b \div 2) + (IF a % 2 = 1 /\ b % 2 = 1 THEN 1 ELSE 0)

\* Access() without the mask
AccessUnmasked(flag) == flag

Access(flag) ==
    LET mask == BitOr(BitOr(OpenReadOnly, OpenWriteOnly), OpenReadWrite)
    IN  BitAnd(flag, mask)

IsRead(flag) == Access(flag) = OpenReadOnly \/ Access(flag) = OpenReadWrite

IsWrite(flag) == Access(flag) = OpenWriteOnly \/ Access(flag) = OpenReadWrite

Append_(flag) == BitOr(flag, O_APPEND)

Create(flag) == BitOr(flag, O_CREATE)

Exclusive(flag) == BitOr(flag, O_EXCL)

Sync(flag) == BitOr(flag, O_SYNC)

Truncate(flag) == BitOr(flag, O_TRUNC)

\* the flags handed to OpenFile: the three access modes, the mode CreateFile
\* uses, an append mode, and the int 3, whose access bits name no mode
FlagValues ==
    { OpenReadOnly, OpenWriteOnly, OpenReadWrite,
      Truncate(Create(OpenReadWrite)), Append_(OpenWriteOnly),
      BitOr(OpenWriteOnly, OpenReadWrite) }

---------------------------------------------------------------------------
(* The FileSystem struct and its constructor.                              *)

\* the zero value of the struct: nil drivers, all flags false
ZeroFileSystem ==
    [ navDriver |-> NilDriver, rDriver |-> NilDriver, rwDriver |-> NilDriver,
      tmpDriver |-> NilDriver,
      canNavigate |-> FALSE, canRead |-> FALSE, canWrite |-> FALSE, canTemp |-> FALSE,
      LineSeparator |-> <<"\n">> ]

DefaultLineDelimiter == <<"\n">>

\* v, ok := driver.(I): v is the driver when ok, the nil interface otherwise
Asserted(d, iface) == IF TypeAssert(d, iface) THEN d ELSE NilDriver

\* the panic test with || in place of &&
NewWithDriverPanicsUnlessAll(d) ==
    \/ ~TypeAssert(d, ReadFileSystemDriver)
    \/ ~TypeAssert(d, ReadWriteFileSystemDriver)
    \/ ~TypeAssert(d, TempFileSystemDriver)

\* whether NewWithDriver(driver) panics
NewWithDriverPanics(d) ==
    /\ ~TypeAssert(d, ReadFileSystemDriver)
    /\ ~TypeAssert(d, ReadWriteFileSystemDriver)
    /\ ~TypeAssert(d, TempFileSystemDriver)

\* the struct NewWithDriver(driver) returns when it does not panic
NewWithDriverResult(d) ==
    [ navDriver |-> Asserted(d, NavigationFileSystemDriver),
      rDriver |-> Asserted(d, ReadFileSystemDriver),
      rwDriver |-> Asserted(d, ReadWriteFileSystemDriver),
      tmpDriver |-> Asserted(d, TempFileSystemDriver),
      canNavigate |-> TypeAssert(d, NavigationFileSystemDriver),
      canRead |-> TypeAssert(d, ReadFileSystemDriver),
      canWrite |-> TypeAssert(d, ReadWriteFileSystemDriver),
      canTemp |-> TypeAssert(d, TempFileSystemDriver),
      LineSeparator |-> DefaultLineDelimiter ]

FlagsOf(f) ==
    [ canNavigate |-> f.canNavigate, canRead |-> f.canRead,
      canWrite |-> f.canWrite, canTemp |-> f.canTemp ]

CanNavigate(f) == f.canNavigate

CanRead(f) == f.canRead

CanWrite(f) == f.canWrite

CanReadWrite(f) == f.canRead /\ f.canWrite

CanTemp(f) == f.canTemp

CanAll(f) == f.canNavigate /\ f.canRead /\ f.canWrite /\ f.canTemp

---------------------------------------------------------------------------
(* One facade call runs against a run record: the driver calls made so far *)
(* (calls), the index of the driver call the environment makes fail        *)
(* (failAt, 0 for none), whether file I/O on a handle fails (ioFail), the  *)
(* content the files hold (data), the number of open handles, the file    *)
(* and os operations done outside the driver interface (io), and the      *)
(* error and value the call returns.                                       *)

Run(cs, failAt, ioFail, data) ==
    [ calls |-> cs, failAt |-> failAt, ioFail |-> ioFail, data |-> data,
      handles |-> 0, io |-> <<>>, err |-> NilErr, val |-> <<>> ]

Fail(st, e) == [st EXCEPT !.err = e, !.val = <<>>]

Return(st, v) == [st EXCEPT !.err = NilErr, !.val = v]

\* d.method(args): a call through an interface value.  A nil interface
\* panics; otherwise the call is recorded with the error the driver
\* returned, and it fails when the environment says so or when the tree
\* cannot serve it (bad).
DriverCall(st, d, method, args, bad, v) ==
    IF d.isNil THEN Fail(st, NilPanic)
    ELSE LET n == Len(st.calls) + 1
             rec(e) == [method |-> method, args |-> args, err |-> e]
         IN  IF n = st.failAt \/ bad
             THEN [st EXCEPT !.calls = Append(@, rec(DriverError(method, n))),
                             !.err = DriverError(method, n), !.val = <<>>]
             ELSE [st EXCEPT !.calls = Append(@, rec(NilErr)),
                             !.err = NilErr, !.val = v]

BaseName(p) == IF p = <<>> THEN "/" ELSE p[Len(p)]

ListingOf(l) == [i \in 1..Len(l) |-> FileInfo(l[i])]

---------------------------------------------------------------------------
(* Navigation access.                                                      *)

Exists(f, path, st) ==
    IF ~f.canNavigate THEN Fail(st, ErrNotSupported("Exists"))
    ELSE DriverCall(st, f.navDriver, "Exists", <<path>>, FALSE,
                    NodeAt(tree, path).found)

IsFile(f, path, st) ==
    IF ~f.canNavigate THEN Fail(st, ErrNotSupported("IsFile"))
    ELSE DriverCall(st, f.navDriver, "IsFile", <<path>>, FALSE,
                    NodeAt(tree, path).found /\ ~NodeAt(tree, path).isDir)

IsDir(f, path, st) ==
    IF ~f.canNavigate THEN Fail(st, ErrNotSupported("IsDir"))
    ELSE DriverCall(st, f.navDriver, "IsDir", <<path>>, FALSE,
                    NodeAt(tree, path).found /\ NodeAt(tree, path).isDir)

Stat(f, path, st) ==
    IF ~f.canNavigate THEN Fail(st, ErrNotSupported("Stat"))
    ELSE DriverCall(st, f.navDriver, "Stat", <<path>>, ~NodeAt(tree, path).found,
                    [name |-> BaseName(path), isDir |-> NodeAt(tree, path).isDir])

\* d.ReadDir(path): the listing of a directory, an error for anything else
DriverReadDir(st, d, path) ==
    LET node == NodeAt(tree, path)
    IN  DriverCall(st, d, "ReadDir", <<path>>, ~(node.found /\ node.isDir),
                   ListingOf(node.sub))

ReadDir(f, path, st) ==
    IF ~f.canNavigate THEN Fail(st, ErrNotSupported("ReadDir"))
    ELSE DriverReadDir(st, f.navDriver, path)

---------------------------------------------------------------------------
(* Read access.                                                            *)

\* d.OpenFile(path, flags): a handle, unless path is a directory or is
\* missing and not to be created
DriverOpenFile(st, d, path, flags) ==
    LET node == NodeAt(tree, path)
        bad == (node.found /\ node.isDir) \/ (~node.found /\ BitAnd(flags, O_CREATE) = 0)
        r == DriverCall(st, d, "OpenFile", <<path, flags>>, bad,
                        [path |-> path, flags |-> flags])
    IN  IF r.err = NilErr THEN [r EXCEPT !.handles = @ + 1] ELSE r

\* f.Close() on an open handle
Close(st) == [st EXCEPT !.handles = @ - 1, !.io = Append(@, <<"Close">>)]

Open(f, path, st) ==
    IF ~f.canRead THEN Fail(st, ErrNotSupported("Open"))
    ELSE DriverOpenFile(st, f.rDriver, path, OpenReadOnly)

OpenFile(f, path, flags, st) ==
    IF IsRead(flags) /\ ~f.canRead THEN Fail(st, ErrNotSupported("OpenFile (read)"))
    ELSE IF IsWrite(flags) /\ ~f.canWrite
         THEN Fail(st, ErrNotSupported("OpenFile (write)"))
         ELSE DriverOpenFile(st, f.rDriver, path, flags)

ReadBytes(f, path, st) ==
    IF ~f.canRead THEN Fail(st, ErrNotSupported("ReadBytes"))
    ELSE LET s1 == Open(f, path, st)
         IN  IF s1.err # NilErr THEN s1
             ELSE LET s2 == [s1 EXCEPT !.io = Append(@, <<"ReadAll">>)]
                  IN  IF s2.ioFail
                      THEN Close(Fail(s2, Err("Failed to read file")))
                      ELSE Close(Return(s2, s2.data))

ReadString(f, path, st) ==
    IF ~f.canRead THEN Fail(st, ErrNotSupported("ReadString"))
    ELSE ReadBytes(f, path, st)

\* strings.Replace(s, old, new, -1) for a non-empty old
RECURSIVE Replace(_, _, _)
Replace(s, old, new) ==
    IF Len(s) < Len(old) THEN s
    ELSE IF SubSeq(s, 1, Len(old)) = old
         THEN new \o Replace(SubSeq(s, Len(old) + 1, Len(s)), old, new)
         ELSE <<s[1]>> \o Replace(Tail(s), old, new)

\* strings.Split(s, sep) for a non-empty sep
RECURSIVE Split(_, _)
Split(s, sep) ==
    IF Len(s) < Len(sep) THEN <<s>>
    ELSE IF SubSeq(s, 1, Len(sep)) = sep
         THEN <<<<>>>> \o Split(SubSeq(s, Len(sep) + 1, Len(s)), sep)
         ELSE LET r == Split(Tail(s), sep)
              IN  <<<<s[1]>> \o Head(r)>> \o Tail(r)

\* strings.Join(lines, sep)
RECURSIVE StringsJoin(_, _)
StringsJoin(lines, sep) ==
    IF lines = <<>> THEN <<>>
    ELSE IF Len(lines) = 1 THEN lines[1]
    ELSE lines[1] \o sep \o StringsJoin(Tail(lines), sep)

\* ReadLines without the replacement of the lone CR
ReadLinesKeepsLoneCR(f, path, st) ==
    IF ~f.canRead THEN Fail(st, ErrNotSupported("ReadLines"))
    ELSE LET s1 == ReadString(f, path, st)
         IN  IF s1.err # NilErr THEN s1
             ELSE LET str1 == Replace(s1.val, <<"\r", "\n">>, <<"\n">>)
                  IN  Return(s1, Split(str1, <<"\n">>))

ReadLines(f, path, st) ==
    IF ~f.canRead THEN Fail(st, ErrNotSupported("ReadLines"))
    ELSE LET s1 == ReadString(f, path, st)
         IN  IF s1.err # NilErr THEN s1
             ELSE LET str1 == Replace(s1.val, <<"\r", "\n">>, <<"\n">>)
                      str2 == Replace(str1, <<"\r">>, <<"\n">>)
                  IN  Return(s1, Split(str2, <<"\n">>))

---------------------------------------------------------------------------
(* Write access.                                                           *)

CreateFile(f, path, st) ==
    IF ~f.canWrite THEN Fail(st, ErrNotSupported("CreateFile"))
    ELSE DriverOpenFile(st, f.rwDriver, path, Truncate(Create(OpenReadWrite)))

CreateDirectory(f, path, st) ==
    IF ~f.canWrite THEN Fail(st, ErrNotSupported("CreateDirectory"))
    ELSE DriverCall(st, f.rwDriver, "CreateDirectory", <<path>>, FALSE, <<>>)

WriteBytes(f, path, content, st) ==
    IF ~f.canWrite THEN Fail(st, ErrNotSupported("WriteBytes"))
    ELSE LET s1 == CreateFile(f, path, st)
         IN  IF s1.err # NilErr THEN s1
             ELSE LET s2 == [s1 EXCEPT !.io = Append(@, <<"Write", content>>)]
                  IN  IF s2.ioFail
                      THEN Close(Fail(s2, Err("Failed to write file")))
                      ELSE Close(Return(s2, <<>>))

WriteString(f, path, content, st) ==
    IF ~f.canWrite THEN Fail(st, ErrNotSupported("WriteString"))
    ELSE WriteBytes(f, path, content, st)

\* WriteLines with a separator after every line
WriteLinesTerminated(f, path, lines, st) ==
    IF ~f.canWrite THEN Fail(st, ErrNotSupported("WriteLines"))
    ELSE WriteBytes(f, path, StringsJoin(lines, f.LineSeparator) \o f.LineSeparator, st)

WriteLines(f, path, lines, st) ==
    IF ~f.canWrite THEN Fail(st, ErrNotSupported("WriteLines"))
    ELSE WriteBytes(f, path, StringsJoin(lines, f.LineSeparator), st)

DeleteFile(f, path, st) ==
    IF ~f.canWrite THEN Fail(st, ErrNotSupported("DeleteFile"))
    ELSE DriverCall(st, f.rwDriver, "DeleteFile", <<path>>, FALSE, <<>>)

DeleteDirectory(f, path, recursive, st) ==
    IF ~f.canWrite THEN Fail(st, ErrNotSupported("DeleteDirectory"))
    ELSE DriverCall(st, f.rwDriver, "DeleteDirectory", <<path, recursive>>, FALSE, <<>>)

\* CleanDirLoop that goes on with the next entry when a deletion failed
RECURSIVE CleanDirLoopSkipsFailures(_, _, _, _, _)
CleanDirLoopSkipsFailures(f, dir, files, i, st) ==
    IF i > Len(files) THEN Return(st, <<>>)
    ELSE LET s1 == IF files[i].isDir
                   THEN DeleteDirectory(f, PathJoin(dir, files[i].name), TRUE, st)
                   ELSE DeleteFile(f, PathJoin(dir, files[i].name), st)
         IN  CleanDirLoopSkipsFailures(f, dir, files, i + 1, s1)

\* the loop of CleanDir over files[i..]
RECURSIVE CleanDirLoop(_, _, _, _, _)
CleanDirLoop(f, dir, files, i, st) ==
    IF i > Len(files) THEN Return(st, <<>>)
    ELSE LET s1 == IF files[i].isDir
                   THEN DeleteDirectory(f, PathJoin(dir, files[i].name), TRUE, st)
                   ELSE DeleteFile(f, PathJoin(dir, files[i].name), st)
         IN  IF s1.err # NilErr THEN s1 ELSE CleanDirLoop(f, dir, files, i + 1, s1)

\* CleanDir that returns nil and deletes nothing
CleanDirReturnsNil(f, dir, st) ==
    IF ~f.canWrite THEN Fail(st, ErrNotSupported("CleanDir"))
    ELSE Return(st, <<>>)

CleanDir(f, dir, st) ==
    IF ~f.canWrite THEN Fail(st, ErrNotSupported("CleanDir"))
    ELSE LET s1 == ReadDir(f, dir, st)
         IN  IF s1.err # NilErr THEN s1 ELSE CleanDirLoop(f, dir, s1.val, 1, s1)

---------------------------------------------------------------------------
(* Move and copy.                                                          *)

MoveFile(f, src, dst, st) ==
    IF ~f.canWrite THEN Fail(st, ErrNotSupported("MoveFile"))
    ELSE DriverCall(st, f.rwDriver, "MoveFile", <<src, dst>>, FALSE, <<>>)

MoveDir(f, src, dst, st) ==
    IF ~f.canWrite THEN Fail(st, ErrNotSupported("MoveDir"))
    ELSE DriverCall(st, f.rwDriver, "MoveDir", <<src, dst>>, FALSE, <<>>)

\* Move that takes everything that is no file for a directory
MoveWithoutIsDir(f, src, dst, st) ==
    IF ~f.canWrite THEN Fail(st, ErrNotSupported("Move"))
    ELSE LET s1 == IsFile(f, src, st)
         IN  IF s1.err # NilErr THEN s1
             ELSE IF s1.val THEN MoveFile(f, src, dst, s1)
             ELSE MoveDir(f, src, dst, s1)

Move(f, src, dst, st) ==
    IF ~f.canWrite THEN Fail(st, ErrNotSupported("Move"))
    ELSE LET s1 == IsFile(f, src, st)
         IN  IF s1.err # NilErr THEN s1
             ELSE IF s1.val THEN MoveFile(f, src, dst, s1)
             ELSE LET s2 == IsDir(f, src, s1)
                  IN  IF s2.err # NilErr THEN s2
                      ELSE IF s2.val THEN MoveDir(f, src, dst, s2)
                      ELSE Fail(s2, ErrNotExists(src))

\* the loop of MoveAll over files[i..]
RECURSIVE MoveAllLoop(_, _, _, _, _, _)
MoveAllLoop(f, src, dst, files, i, st) ==
    IF i > Len(files) THEN Return(st, <<>>)
    ELSE LET from == PathJoin(src, files[i].name)
             to == PathJoin(dst, files[i].name)
             s1 == IF files[i].isDir THEN MoveDir(f, from, to, st)
                   ELSE MoveFile(f, from, to, st)
         IN  IF s1.err # NilErr THEN s1 ELSE MoveAllLoop(f, src, dst, files, i + 1, s1)

\* MoveAll without its capability check
MoveAllUnchecked(f, src, dst, st) ==
    LET s1 == DriverReadDir(st, f.rDriver, src)
    IN  IF s1.err # NilErr THEN s1 ELSE MoveAllLoop(f, src, dst, s1.val, 1, s1)

MoveAll(f, src, dst, st) ==
    IF ~f.canWrite THEN Fail(st, ErrNotSupported("MoveAll"))
    ELSE LET s1 == DriverReadDir(st, f.rDriver, src)
         IN  IF s1.err # NilErr THEN s1 ELSE MoveAllLoop(f, src, dst, s1.val, 1, s1)

\* CopyFile that returns the error of CreateFile without closing the reader
CopyFileLeavesReaderOpen(f, src, dst, st) ==
    IF ~f.canWrite THEN Fail(st, ErrNotSupported("CopyFile"))
    ELSE LET s1 == Open(f, src, st)
         IN  IF s1.err # NilErr THEN s1
             ELSE LET s2 == CreateFile(f, dst, s1)
                  IN  IF s2.err # NilErr THEN s2
                      ELSE LET s3 == [s2 EXCEPT !.io = Append(@, <<"Copy", s2.data>>)]
                           IN  IF s3.ioFail
                               THEN Close(Close(Fail(s3, Err("Failed to copy file"))))
                               ELSE Close(Close(Return(s3, <<>>)))

CopyFile(f, src, dst, st) ==
    IF ~f.canWrite THEN Fail(st, ErrNotSupported("CopyFile"))
    ELSE LET s1 == Open(f, src, st)
         IN  IF s1.err # NilErr THEN s1
             ELSE LET s2 == CreateFile(f, dst, s1)
                  IN  IF s2.err # NilErr THEN Close(s2)
                      ELSE LET s3 == [s2 EXCEPT !.io = Append(@, <<"Copy", s2.data>>)]
                           IN  IF s3.ioFail
                               THEN Close(Close(Fail(s3, Err("Failed to copy file"))))
                               ELSE Close(Close(Return(s3, <<>>)))

\* CopyDir and the loop CopyDir and CopyAll share, over files[i..]
RECURSIVE CopyDir(_, _, _, _)
RECURSIVE CopyLoop(_, _, _, _, _, _)
CopyLoop(f, src, dst, files, i, st) ==
    IF i > Len(files) THEN Return(st, <<>>)
    ELSE LET from == PathJoin(src, files[i].name)
             to == PathJoin(dst, files[i].name)
             s1 == IF files[i].isDir THEN CopyDir(f, from, to, st)
                   ELSE CopyFile(f, from, to, st)
         IN  IF s1.err # NilErr THEN s1 ELSE CopyLoop(f, src, dst, files, i + 1, s1)

CopyDir(f, src, dst, st) ==
    IF ~f.canWrite THEN Fail(st, ErrNotSupported("CopyDir"))
    ELSE LET s1 == DriverCall(st, f.rwDriver, "CreateDirectory", <<dst>>, FALSE, <<>>)
         IN  IF s1.err # NilErr THEN s1
             ELSE LET s2 == DriverReadDir(s1, f.rDriver, src)
                  IN  IF s2.err # NilErr THEN s2
                      ELSE CopyLoop(f, src, dst, s2.val, 1, s2)

Copy(f, src, dst, st) ==
    IF ~f.canWrite THEN Fail(st, ErrNotSupported("Copy"))
    ELSE LET s1 == IsFile(f, src, st)
         IN  IF s1.err # NilErr THEN s1
             ELSE IF s1.val THEN CopyFile(f, src, dst, s1)
             ELSE LET s2 == IsDir(f, src, s1)
                  IN  IF s2.err # NilErr THEN s2
                      ELSE IF s2.val THEN CopyDir(f, src, dst, s2)
                      ELSE Fail(s2, ErrNotExists(src))

CopyAll(f, src, dst, st) ==
    IF ~f.canWrite THEN Fail(st, ErrNotSupported("CopyAll"))
    ELSE LET s1 == DriverReadDir(st, f.rDriver, src)
         IN  IF s1.err # NilErr THEN s1 ELSE CopyLoop(f, src, dst, s1.val, 1, s1)

---------------------------------------------------------------------------
(* Temp files and contexts.                                                *)

\* the path a driver hands out for a temporary file or directory
TempPath == <<"tmp">>

GetTempFile(f, pattern, st) ==
    IF ~f.canTemp THEN Fail(st, ErrNotSupported("GetTempFile"))
    ELSE DriverCall(st, f.tmpDriver, "GetTempFile", <<pattern>>, FALSE, TempPath)

GetTempDir(f, prefix, st) ==
    IF ~f.canTemp THEN Fail(st, ErrNotSupported("GetTempDir"))
    ELSE DriverCall(st, f.tmpDriver, "GetTempDir", <<prefix>>, FALSE, TempPath)

\* WithTempFile without the deferred os.Remove
WithTempFileKeepsFile(f, pattern, cbFails, st) ==
    IF ~f.canTemp THEN Fail(st, ErrNotSupported("WithTempFile"))
    ELSE LET s1 == DriverCall(st, f.tmpDriver, "GetTempFile", <<pattern>>, FALSE, TempPath)
         IN  IF s1.err # NilErr THEN s1
             ELSE LET s2 == [s1 EXCEPT !.io = Append(@, <<"callback", s1.val>>)]
                  IN  IF cbFails THEN Fail(s2, CallbackError("WithTempFile", 1))
                      ELSE Return(s2, <<>>)

\* cbFails: whether the callback f(tmpFile) returns an error
WithTempFile(f, pattern, cbFails, st) ==
    IF ~f.canTemp THEN Fail(st, ErrNotSupported("WithTempFile"))
    ELSE LET s1 == DriverCall(st, f.tmpDriver, "GetTempFile", <<pattern>>, FALSE, TempPath)
         IN  IF s1.err # NilErr THEN s1
             ELSE LET s2 == [s1 EXCEPT !.io = Append(@, <<"callback", s1.val>>)]
                      s3 == IF cbFails THEN Fail(s2, CallbackError("WithTempFile", 1))
                            ELSE Return(s2, <<>>)
                  IN  [s3 EXCEPT !.io = Append(@, <<"os.Remove", s1.val>>)]

WithTempDir(f, prefix, cbFails, st) ==
    IF ~f.canTemp THEN Fail(st, ErrNotSupported("WithTempDir"))
    ELSE LET s1 == DriverCall(st, f.tmpDriver, "GetTempDir", <<prefix>>, FALSE, TempPath)
         IN  IF s1.err # NilErr THEN s1
             ELSE LET s2 == [s1 EXCEPT !.io = Append(@, <<"callback", s1.val>>)]
                      s3 == IF cbFails THEN Fail(s2, CallbackError("WithTempDir", 1))
                            ELSE Return(s2, <<>>)
                  IN  [s3 EXCEPT !.io = Append(@, <<"os.RemoveAll", s1.val>>)]

---------------------------------------------------------------------------
(* The inputs of the facade calls.                                         *)

\* file contents, as sequences of characters
Contents == {<<>>, <<"x">>, <<"\r", "\n">>, <<"x", "\n", "y", "\r">>}

\* lists of lines
LineLists == {<<>>, <<<<"x">>>>, <<<<"x">>, <<>>>>}

NoCall ==
    [op |-> "", args |-> <<>>, err |-> NilErr, val |-> <<>>, io |-> <<>>, handles |-> 0]

NoWalk ==
    [ dir |-> <<>>, visit |-> FALSE, enter |-> FALSE, leave |-> FALSE,
      optionsNil |-> TRUE, SkipSubDirs |-> FALSE ]

\* the destinations handed to the move and copy calls
DstPaths == {<<"b">>, <<"a", "b">>}

\* the environments of a call that makes at most one driver call: the call
\* fails or it does not
Envs == {Run(<<>>, IF fail THEN 1 ELSE 0, FALSE, <<>>) : fail \in BOOLEAN}

\* the environments of a call that makes several driver calls: which fails
LoopEnvs == {Run(<<>>, k, FALSE, <<>>) : k \in 0..MaxFail}

\* the same with a failing or working copy of the file content
CopyEnvs == {Run(<<>>, k, io, <<"x">>) : k \in 0..MaxFail, io \in BOOLEAN}

\* the environments of a read: the open fails, the read fails, or the file
\* holds some content
ReadEnvs ==
    {Run(<<>>, 1, FALSE, <<>>), Run(<<>>, 0, TRUE, <<>>)}
        \cup {Run(<<>>, 0, FALSE, d) : d \in Contents}

\* the environments of a write: the create fails, the write fails, or not
WriteEnvs ==
    {Run(<<>>, 1, FALSE, <<>>), Run(<<>>, 0, TRUE, <<>>), Run(<<>>, 0, FALSE, <<>>)}

---------------------------------------------------------------------------
(* The state machine: construction.                                        *)

Init ==
    /\ phase = "init"
    /\ ctor = ""
    /\ driverArg = NilDriver
    /\ fs = ZeroFileSystem
    /\ flags0 = FlagsOf(ZeroFileSystem)
    /\ tree \in Listings(MaxListed)
    /\ bytes = NoContent
    /\ calls = <<>>
    /\ last = NoCall
    /\ walkArgs = NoWalk
    /\ stack = <<>>
    /\ ret = NilErr
    /\ events = <<>>

\* NewWithDriver(driver) for any value
NewWithDriver ==
    /\ phase = "init"
    /\ ctor' = "NewWithDriver"
    /\ \E d \in DriverValues :
        /\ driverArg' = d
        /\ IF NewWithDriverPanics(d)
           THEN /\ phase' = "panicked"
                /\ UNCHANGED <<fs, flags0>>
           ELSE /\ phase' = "ready"
                /\ fs' = NewWithDriverResult(d)
                /\ flags0' = FlagsOf(NewWithDriverResult(d))
    /\ UNCHANGED <<tree, bytes, calls, last, walkArgs, stack, ret, events>>

\* the *LocalDriver value: it has every method of every tier
LocalDriver == Value(TempFileSystemDriver)

\* New(): NewWithDriver(&LocalDriver{})
New ==
    /\ phase = "init"
    /\ ctor' = "New"
    /\ driverArg' = LocalDriver
    /\ phase' = "ready"
    /\ fs' = NewWithDriverResult(LocalDriver)
    /\ flags0' = FlagsOf(NewWithDriverResult(LocalDriver))
    /\ UNCHANGED <<tree, bytes, calls, last, walkArgs, stack, ret, events>>

\* a FileSystem declared without a constructor (var f FileSystem)
ZeroValue ==
    /\ phase = "init"
    /\ ctor' = "ZeroValue"
    /\ phase' = "ready"
    /\ fs' = ZeroFileSystem
    /\ flags0' = FlagsOf(ZeroFileSystem)
    /\ UNCHANGED <<driverArg, tree, bytes, calls, last, walkArgs, stack, ret, events>>

---------------------------------------------------------------------------
(* The state machine: one action per facade method, each on a facade in    *)
(* hand, with its inputs and its environment.                              *)

Invoke(op, args, st) ==
    /\ \E r \in {st} :
        /\ calls' = r.calls
        /\ last' = [ op |-> op, args |-> args, err |-> r.err, val |-> r.val,
                     io |-> r.io, handles |-> r.handles ]
        /\ phase' = IF r.err = NilPanic THEN "panicked" ELSE "called"
    /\ events' = <<>>
    /\ UNCHANGED <<ctor, driverArg, fs, flags0, tree, bytes, walkArgs, stack, ret>>

\* the caller goes on after a call returned: the logs of that call are dropped
Continue ==
    /\ phase = "called"
    /\ phase' = "ready"
    /\ calls' = <<>>
    /\ events' = <<>>
    /\ last' = NoCall
    /\ walkArgs' = NoWalk
    /\ ret' = NilErr
    /\ UNCHANGED <<ctor, driverArg, fs, flags0, tree, bytes, stack>>

CallExists ==
    /\ phase = "ready"
    /\ \E p \in Paths, st \in Envs :
        Invoke("Exists", <<p>>, Exists(fs, p, st))

CallIsFile ==
    /\ phase = "ready"
    /\ \E p \in Paths, st \in Envs :
        Invoke("IsFile", <<p>>, IsFile(fs, p, st))

CallIsDir ==
    /\ phase = "ready"
    /\ \E p \in Paths, st \in Envs :
        Invoke("IsDir", <<p>>, IsDir(fs, p, st))

CallStat ==
    /\ phase = "ready"
    /\ \E p \in Paths, st \in Envs :
        Invoke("Stat", <<p>>, Stat(fs, p, st))

CallReadDir ==
    /\ phase = "ready"
    /\ \E p \in Paths, st \in Envs :
        Invoke("ReadDir", <<p>>, ReadDir(fs, p, st))

CallOpen ==
    /\ phase = "ready"
    /\ \E p \in Paths, st \in Envs :
        Invoke("Open", <<p>>, Open(fs, p, st))

CallOpenFile ==
    /\ phase = "ready"
    /\ \E p \in Paths, fl \in FlagValues, st \in Envs :
        Invoke("OpenFile", <<p, fl>>, OpenFile(fs, p, fl, st))

CallReadBytes ==
    /\ phase = "ready"
    /\ \E p \in Paths, st \in ReadEnvs :
        Invoke("ReadBytes", <<p>>, ReadBytes(fs, p, st))

CallReadString ==
    /\ phase = "ready"
    /\ \E p \in Paths, st \in ReadEnvs :
        Invoke("ReadString", <<p>>, ReadString(fs, p, st))

CallReadLines ==
    /\ phase = "ready"
    /\ \E p \in Paths, st \in ReadEnvs :
        Invoke("ReadLines", <<p>>, ReadLines(fs, p, st))

CallCreateFile ==
    /\ phase = "ready"
    /\ \E p \in Paths, st \in Envs :
        Invoke("CreateFile", <<p>>, CreateFile(fs, p, st))

CallCreateDirectory ==
    /\ phase = "ready"
    /\ \E p \in Paths, st \in Envs :
        Invoke("CreateDirectory", <<p>>, CreateDirectory(fs, p, st))

CallWriteBytes ==
    /\ phase = "ready"
    /\ \E p \in Paths, c \in Contents, st \in WriteEnvs :
        Invoke("WriteBytes", <<p, c>>, WriteBytes(fs, p, c, st))

CallWriteString ==
    /\ phase = "ready"
    /\ \E p \in Paths, c \in Contents, st \in WriteEnvs :
        Invoke("WriteString", <<p, c>>, WriteString(fs, p, c, st))

CallWriteLines ==
    /\ phase = "ready"
    /\ \E p \in Paths, ls \in LineLists, st \in WriteEnvs :
        Invoke("WriteLines", <<p, ls>>, WriteLines(fs, p, ls, st))

CallDeleteFile ==
    /\ phase = "ready"
    /\ \E p \in Paths, st \in Envs :
        Invoke("DeleteFile", <<p>>, DeleteFile(fs, p, st))

CallDeleteDirectory ==
    /\ phase = "ready"
    /\ \E p \in Paths, r \in BOOLEAN, st \in Envs :
        Invoke("DeleteDirectory", <<p, r>>, DeleteDirectory(fs, p, r, st))

CallCleanDir ==
    /\ phase = "ready"
    /\ \E p \in Paths, st \in LoopEnvs :
        Invoke("CleanDir", <<p>>, CleanDir(fs, p, st))

CallMove ==
    /\ phase = "ready"
    /\ \E p \in Paths, q \in DstPaths, st \in LoopEnvs :
        Invoke("Move", <<p, q>>, Move(fs, p, q, st))

CallMoveFile ==
    /\ phase = "ready"
    /\ \E p \in Paths, q \in DstPaths, st \in Envs :
        Invoke("MoveFile", <<p, q>>, MoveFile(fs, p, q, st))

CallMoveDir ==
    /\ phase = "ready"
    /\ \E p \in Paths, q \in DstPaths, st \in Envs :
        Invoke("MoveDir", <<p, q>>, MoveDir(fs, p, q, st))

CallMoveAll ==
    /\ phase = "ready"
    /\ \E p \in Paths, q \in DstPaths, st \in LoopEnvs :
        Invoke("MoveAll", <<p, q>>, MoveAll(fs, p, q, st))

CallCopy ==
    /\ phase = "ready"
    /\ \E p \in Paths, q \in DstPaths, st \in CopyEnvs :
        Invoke("Copy", <<p, q>>, Copy(fs, p, q, st))

CallCopyFile ==
    /\ phase = "ready"
    /\ \E p \in Paths, q \in DstPaths, st \in CopyEnvs :
        Invoke("CopyFile", <<p, q>>, CopyFile(fs, p, q, st))

CallCopyDir ==
    /\ phase = "ready"
    /\ \E p \in Paths, q \in DstPaths, st \in CopyEnvs :
        Invoke("CopyDir", <<p, q>>, CopyDir(fs, p, q, st))

CallCopyAll ==
    /\ phase = "ready"
    /\ \E p \in Paths, q \in DstPaths, st \in CopyEnvs :
        Invoke("CopyAll", <<p, q>>, CopyAll(fs, p, q, st))

CallGetTempFile ==
    /\ phase = "ready"
    /\ \E st \in Envs :
        Invoke("GetTempFile", <<"pattern">>, GetTempFile(fs, "pattern", st))

CallGetTempDir ==
    /\ phase = "ready"
    /\ \E st \in Envs :
        Invoke("GetTempDir", <<"prefix">>, GetTempDir(fs, "prefix", st))

CallWithTempFile ==
    /\ phase = "ready"
    /\ \E cb \in BOOLEAN, st \in Envs :
        Invoke("WithTempFile", <<"pattern">>, WithTempFile(fs, "pattern", cb, st))

CallWithTempDir ==
    /\ phase = "ready"
    /\ \E cb \in BOOLEAN, st \in Envs :
        Invoke("WithTempDir", <<"prefix">>, WithTempDir(fs, "prefix", cb, st))

---------------------------------------------------------------------------
(* The walker.  Walk checks the capability and calls walk; each activation *)
(* of the recursive walk is a frame: its directory, the listing ReadDir    *)
(* returned, the index of the entry in work and the place in the loop body *)
(* ("ReadDir", "visit", "enter", "call": inside the recursive call,        *)
(* "returned": the recursive call came back).                              *)

Frame(dir) == [dir |-> dir, files |-> <<>>, i |-> 0, at |-> "ReadDir"]

Top == stack[Len(stack)]

\* the place of a FileInfo in a ReadDir event, which has none
RootInfo == [name |-> "", isDir |-> TRUE]

\* one invocation: its kind ("visit", "enter", "leave", "ReadDir"), the dir
\* and FileInfo it was given, whether it set *skipDir, the error it returned
Event(kind, dir, f, skip, e) ==
    [ kind |-> kind, dir |-> dir, name |-> f.name, isDir |-> f.isDir,
      skip |-> skip, err |-> e ]

\* the top activation goes on at another place of its loop
WalkGoto(frame) ==
    /\ stack' = [stack EXCEPT ![Len(stack)] = frame]
    /\ UNCHANGED <<ret, last, phase>>

\* the top activation returns e: to the activation that called it, or, from
\* the outermost one, to the caller of Walk
WalkReturn(e) ==
    /\ ret' = e
    /\ IF Len(stack) = 1
       THEN /\ stack' = <<>>
            /\ last' = [last EXCEPT !.err = e]
            /\ phase' = IF e = NilPanic THEN "panicked" ELSE "called"
       ELSE /\ stack' = [SubSeq(stack, 1, Len(stack) - 1)
                            EXCEPT ![Len(stack) - 1].at = "returned"]
            /\ UNCHANGED <<last, phase>>

\* the loop left after its first entry
WalkNextFileStopsEarly == WalkReturn(NilErr)

\* the end of the loop body: the next entry, or the return nil after the loop
WalkNextFile ==
    IF Top.i < Len(Top.files)
    THEN WalkGoto([Top EXCEPT !.i = @ + 1, !.at = "visit"])
    ELSE WalkReturn(NilErr)

\* Walk(dir, visitFileHandler, enterDirHandler, leaveDirHandler, options):
\* v, e, l tell which handlers are not nil
Walk ==
    /\ phase = "ready"
    /\ \E dir \in {<<>>}, v \in BOOLEAN, e \in BOOLEAN, l \in BOOLEAN,
          optionsNil \in BOOLEAN, skipSubDirs \in BOOLEAN :
        /\ optionsNil => ~skipSubDirs
        /\ calls' = <<>>
        /\ events' = <<>>
        /\ ret' = NilErr
        /\ walkArgs' = [ dir |-> dir, visit |-> v, enter |-> e, leave |-> l,
                         optionsNil |-> optionsNil, SkipSubDirs |-> skipSubDirs ]
        /\ IF ~fs.canNavigate
           THEN /\ last' = [NoCall EXCEPT !.op = "Walk", !.args = <<dir>>,
                                          !.err = ErrNotSupported("Walk")]
                /\ phase' = "called"
                /\ UNCHANGED stack
           ELSE /\ last' = [NoCall EXCEPT !.op = "Walk", !.args = <<dir>>]
                /\ stack' = <<Frame(dir)>>
                /\ phase' = "walking"
    /\ UNCHANGED <<ctor, driverArg, fs, flags0, tree, bytes>>

\* files, err := fs.ReadDir(dir), the first statement of walk
WalkReadDir ==
    /\ phase = "walking"
    /\ Top.at = "ReadDir"
    /\ \E fail \in BOOLEAN :
        LET st == ReadDir(fs, Top.dir,
                          Run(calls, IF fail THEN Len(calls) + 1 ELSE 0, FALSE, <<>>))
        IN  /\ calls' = st.calls
            /\ events' = Append(events, Event("ReadDir", Top.dir, RootInfo, FALSE, st.err))
            /\ IF st.err # NilErr THEN WalkReturn(st.err)
               ELSE IF st.val = <<>> THEN WalkReturn(NilErr)
               ELSE WalkGoto([Top EXCEPT !.files = st.val, !.i = 1, !.at = "visit"])
    /\ UNCHANGED <<ctor, driverArg, fs, flags0, tree, bytes, walkArgs>>

\* the visitFileHandler part with the handler's error dropped
WalkVisitIgnoresError ==
    /\ phase = "walking"
    /\ Top.at = "visit"
    /\ LET f == Top.files[Top.i]
           goOn == IF ~walkArgs.SkipSubDirs /\ f.isDir
                   THEN WalkGoto([Top EXCEPT !.at = "enter"])
                   ELSE WalkNextFile
       IN  IF walkArgs.visit
           THEN \E fails \in BOOLEAN :
                  LET e == IF fails THEN CallbackError("visit", Len(events) + 1)
                           ELSE NilErr
                  IN  /\ events' = Append(events, Event("visit", Top.dir, f, FALSE, e))
                      /\ goOn
           ELSE /\ events' = events
                /\ goOn
    /\ UNCHANGED <<ctor, driverArg, fs, flags0, tree, bytes, walkArgs, calls>>

\* the test after the visitFileHandler part without options.SkipSubDirs
WalkVisitIgnoresSkipSubDirs ==
    /\ phase = "walking"
    /\ Top.at = "visit"
    /\ LET f == Top.files[Top.i]
           goOn == IF f.isDir
                   THEN WalkGoto([Top EXCEPT !.at = "enter"])
                   ELSE WalkNextFile
       IN  IF walkArgs.visit
           THEN \E fails \in BOOLEAN :
                  LET e == IF fails THEN CallbackError("visit", Len(events) + 1)
                           ELSE NilErr
                  IN  /\ events' = Append(events, Event("visit", Top.dir, f, FALSE, e))
                      /\ IF e # NilErr THEN WalkReturn(e) ELSE goOn
           ELSE /\ events' = events
                /\ goOn
    /\ UNCHANGED <<ctor, driverArg, fs, flags0, tree, bytes, walkArgs, calls>>

\* the visitFileHandler part, entered for directories only
WalkVisitDirectoriesOnly ==
    /\ phase = "walking"
    /\ Top.at = "visit"
    /\ LET f == Top.files[Top.i]
           goOn == IF ~walkArgs.SkipSubDirs /\ f.isDir
                   THEN WalkGoto([Top EXCEPT !.at = "enter"])
                   ELSE WalkNextFile
       IN  IF walkArgs.visit /\ f.isDir
           THEN \E fails \in BOOLEAN :
                  LET e == IF fails THEN CallbackError("visit", Len(events) + 1)
                           ELSE NilErr
                  IN  /\ events' = Append(events, Event("visit", Top.dir, f, FALSE, e))
                      /\ IF e # NilErr THEN WalkReturn(e) ELSE goOn
           ELSE /\ events' = events
                /\ goOn
    /\ UNCHANGED <<ctor, driverArg, fs, flags0, tree, bytes, walkArgs, calls>>

\* the visitFileHandler part of the loop body, and the test that follows it
WalkVisit ==
    /\ phase = "walking"
    /\ Top.at = "visit"
    /\ LET f == Top.files[Top.i]
           goOn == IF ~walkArgs.SkipSubDirs /\ f.isDir
                   THEN WalkGoto([Top EXCEPT !.at = "enter"])
                   ELSE WalkNextFile
       IN  IF walkArgs.visit
           THEN \E fails \in BOOLEAN :
                  LET e == IF fails THEN CallbackError("visit", Len(events) + 1)
                           ELSE NilErr
                  IN  /\ events' = Append(events, Event("visit", Top.dir, f, FALSE, e))
                      /\ IF e # NilErr THEN WalkReturn(e) ELSE goOn
           ELSE /\ events' = events
                /\ goOn
    /\ UNCHANGED <<ctor, driverArg, fs, flags0, tree, bytes, walkArgs, calls>>

\* the enterDirHandler part without the test of skipDir
WalkEnterIgnoresSkip ==
    /\ phase = "walking"
    /\ Top.at = "enter"
    /\ LET f == Top.files[Top.i]
           recurse ==
               /\ stack' = Append([stack EXCEPT ![Len(stack)].at = "call"],
                                  Frame(PathJoin(Top.dir, f.name)))
               /\ UNCHANGED <<ret, last, phase>>
       IN  IF walkArgs.enter
           THEN \E fails \in BOOLEAN, skipDir \in BOOLEAN :
                  LET e == IF fails THEN CallbackError("enter", Len(events) + 1)
                           ELSE NilErr
                  IN  /\ events' = Append(events, Event("enter", Top.dir, f, skipDir, e))
                      /\ IF e # NilErr THEN WalkReturn(e) ELSE recurse
           ELSE /\ events' = events
                /\ recurse
    /\ UNCHANGED <<ctor, driverArg, fs, flags0, tree, bytes, walkArgs, calls>>

\* the enterDirHandler part with a skipDir that ends the whole Walk
WalkEnterSkipEndsWalk ==
    /\ phase = "walking"
    /\ Top.at = "enter"
    /\ LET f == Top.files[Top.i]
           recurse ==
               /\ stack' = Append([stack EXCEPT ![Len(stack)].at = "call"],
                                  Frame(PathJoin(Top.dir, f.name)))
               /\ UNCHANGED <<ret, last, phase>>
       IN  IF walkArgs.enter
           THEN \E fails \in BOOLEAN, skipDir \in BOOLEAN :
                  LET e == IF fails THEN CallbackError("enter", Len(events) + 1)
                           ELSE NilErr
                  IN  /\ events' = Append(events, Event("enter", Top.dir, f, skipDir, e))
                      /\ IF e # NilErr THEN WalkReturn(e)
                         ELSE IF skipDir
                         THEN /\ ret' = NilErr
                              /\ stack' = <<>>
                              /\ last' = [last EXCEPT !.err = NilErr]
                              /\ phase' = "called"
                         ELSE recurse
           ELSE /\ events' = events
                /\ recurse
    /\ UNCHANGED <<ctor, driverArg, fs, flags0, tree, bytes, walkArgs, calls>>

\* the enterDirHandler part of the loop body, and the recursive call
WalkEnter ==
    /\ phase = "walking"
    /\ Top.at = "enter"
    /\ LET f == Top.files[Top.i]
           recurse ==
               /\ stack' = Append([stack EXCEPT ![Len(stack)].at = "call"],
                                  Frame(PathJoin(Top.dir, f.name)))
               /\ UNCHANGED <<ret, last, phase>>
       IN  IF walkArgs.enter
           THEN \E fails \in BOOLEAN, skipDir \in BOOLEAN :
                  LET e == IF fails THEN CallbackError("enter", Len(events) + 1)
                           ELSE NilErr
                  IN  /\ events' = Append(events, Event("enter", Top.dir, f, skipDir, e))
                      /\ IF e # NilErr THEN WalkReturn(e)
                         ELSE IF skipDir THEN WalkReturn(NilErr)
                         ELSE recurse
           ELSE /\ events' = events
                /\ recurse
    /\ UNCHANGED <<ctor, driverArg, fs, flags0, tree, bytes, walkArgs, calls>>

\* the leaveDirHandler part run before the error of the recursive call is
\* looked at
WalkLeaveBeforeErrorCheck ==
    /\ phase = "walking"
    /\ Top.at = "returned"
    /\ LET f == Top.files[Top.i]
       IN  IF walkArgs.leave
           THEN \E fails \in BOOLEAN :
                  LET e == IF fails THEN CallbackError("leave", Len(events) + 1)
                           ELSE NilErr
                  IN  /\ events' = Append(events, Event("leave", Top.dir, f, FALSE, e))
                      /\ IF ret # NilErr THEN WalkReturn(ret)
                         ELSE IF e # NilErr THEN WalkReturn(e) ELSE WalkNextFile
           ELSE /\ events' = events
                /\ IF ret # NilErr THEN WalkReturn(ret) ELSE WalkNextFile
    /\ UNCHANGED <<ctor, driverArg, fs, flags0, tree, bytes, walkArgs, calls>>

\* after the recursive call: its error check, then the leaveDirHandler part
WalkLeave ==
    /\ phase = "walking"
    /\ Top.at = "returned"
    /\ LET f == Top.files[Top.i]
       IN  IF ret # NilErr
           THEN /\ events' = events
                /\ WalkReturn(ret)
           ELSE IF walkArgs.leave
           THEN \E fails \in BOOLEAN :
                  LET e == IF fails THEN CallbackError("leave", Len(events) + 1)
                           ELSE NilErr
                  IN  /\ events' = Append(events, Event("leave", Top.dir, f, FALSE, e))
                      /\ IF e # NilErr THEN WalkReturn(e) ELSE WalkNextFile
           ELSE /\ events' = events
                /\ WalkNextFile
    /\ UNCHANGED <<ctor, driverArg, fs, flags0, tree, bytes, walkArgs, calls>>

---------------------------------------------------------------------------
(* The specifications.                                                     *)

WalkNext == Walk \/ WalkReadDir \/ WalkVisit \/ WalkEnter \/ WalkLeave \/ Continue

Next ==
    \/ NewWithDriver \/ New \/ ZeroValue
    \/ CallExists \/ CallIsFile \/ CallIsDir \/ CallStat \/ CallReadDir
    \/ CallOpen \/ CallOpenFile \/ CallReadBytes \/ CallReadString \/ CallReadLines
    \/ CallCreateFile \/ CallCreateDirectory
    \/ CallWriteBytes \/ CallWriteString \/ CallWriteLines
    \/ CallDeleteFile \/ CallDeleteDirectory \/ CallCleanDir
    \/ CallMove \/ CallMoveFile \/ CallMoveDir \/ CallMoveAll
    \/ CallCopy \/ CallCopyFile \/ CallCopyDir \/ CallCopyAll
    \/ CallGetTempFile \/ CallGetTempDir \/ CallWithTempFile \/ CallWithTempDir
    \/ WalkNext

\* the facade from any start: construction, then any sequence of calls
Spec == Init /\ [][Next]_vars

\* a walk of any tree of at most MaxNodes entries, on the facade of a
\* read-only driver or of a full driver, or on the zero value
WalkInit ==
    /\ phase = "ready"
    /\ \E d \in {NilDriver, Value(ReadFileSystemDriver), Value(TempFileSystemDriver)} :
        /\ driverArg = d
        /\ ctor = IF d.isNil THEN "ZeroValue" ELSE "NewWithDriver"
        /\ fs = IF d.isNil THEN ZeroFileSystem ELSE NewWithDriverResult(d)
        /\ flags0 = FlagsOf(fs)
    /\ tree \in Listings(MaxNodes)
    /\ bytes = NoContent
    /\ calls = <<>>
    /\ last = NoCall
    /\ walkArgs = NoWalk
    /\ stack = <<>>
    /\ ret = NilErr
    /\ events = <<>>

WalkSpec == WalkInit /\ [][WalkNext]_vars

---------------------------------------------------------------------------
(* Properties of the facade.                                               *)

\* the operations by the flag they require
NavOps == {"Exists", "IsFile", "IsDir", "Stat", "ReadDir", "Walk"}

ReadOps == {"Open", "ReadBytes", "ReadString", "ReadLines"}

WriteOps ==
    { "CreateFile", "CreateDirectory", "WriteBytes", "WriteString", "WriteLines",
      "DeleteFile", "DeleteDirectory", "CleanDir", "Move", "MoveFile", "MoveDir",
      "MoveAll", "Copy", "CopyFile", "CopyDir", "CopyAll" }

TempOps == {"GetTempFile", "GetTempDir", "WithTempFile", "WithTempDir"}

\* the access mode of open flags reads (O_RDONLY = 0, O_RDWR = 2) or writes
\* (O_WRONLY = 1, O_RDWR = 2)
ModeReads(fl) == fl % 4 \in {0, 2}

ModeWrites(fl) == fl % 4 \in {1, 2}

\* the last call was made without a flag it requires
LacksRequiredFlag ==
    \/ last.op \in NavOps /\ ~fs.canNavigate
    \/ last.op \in ReadOps /\ ~fs.canRead
    \/ last.op \in WriteOps /\ ~fs.canWrite
    \/ last.op \in TempOps /\ ~fs.canTemp
    \/ /\ last.op = "OpenFile"
       /\ \/ ModeReads(last.args[2]) /\ ~fs.canRead
          \/ ModeWrites(last.args[2]) /\ ~fs.canWrite

\* the name the refusal of the last call carries: the operation's name, for
\* OpenFile with the access that was refused
RefusedName ==
    IF last.op # "OpenFile" THEN last.op
    ELSE IF ModeReads(last.args[2]) /\ ~fs.canRead THEN "OpenFile (read)"
    ELSE "OpenFile (write)"

\* C1: a capability-gated operation called on a facade whose required flag
\* is false returns ErrNotSupported carrying the operation's name (OpenFile:
\* its name with the refused access), and no driver method is invoked
\* during the call.
C1_GatedOperationRefused ==
    LacksRequiredFlag =>
        /\ phase = "called"
        /\ last.err = ErrNotSupported(RefusedName)
        /\ calls = <<>>

\* a read-only facade made by NewWithDriver refused CopyAll
C1_Witness ==
    /\ ctor = "NewWithDriver"
    /\ fs.canRead /\ ~fs.canWrite
    /\ last.op = "CopyAll"
    /\ last.err = ErrNotSupported("CopyAll")
    /\ calls = <<>>

\* a driver value that implements the navigation tier and nothing else
NavigationOnlyDriver ==
    [isNil |-> FALSE, methods |-> {"Exists", "IsFile", "IsDir", "Stat", "ReadDir"}]

\* C2: NewWithDriver on a driver that implements only the navigation tier
\* gives a facade on which every read, write and temp operation fails with
\* ErrNotSupported naming the operation, and on which the navigation
\* operations are not refused but delegated to the driver.
C2_NavigationOnlyFacade ==
    (ctor = "NewWithDriver" /\ driverArg = NavigationOnlyDriver) =>
        /\ phase # "panicked"
        /\ fs.canNavigate /\ ~fs.canRead /\ ~fs.canWrite /\ ~fs.canTemp
        /\ last.op \in ReadOps \cup WriteOps \cup TempOps =>
               last.err = ErrNotSupported(last.op)
        /\ last.op = "OpenFile" => last.err.kind = "ErrNotSupported"
        /\ last.op \in NavOps =>
               /\ last.err.kind # "ErrNotSupported"
               /\ phase = "called" => calls # <<>>

\* the methods of the three tiers that let a driver be accepted
ReadTier == {"Exists", "IsFile", "IsDir", "Stat", "ReadDir", "OpenFile"}

ReadWriteTier ==
    ReadTier \cup {"CreateDirectory", "DeleteFile", "DeleteDirectory", "MoveFile", "MoveDir"}

TempTier == ReadWriteTier \cup {"GetTempFile", "GetTempDir"}

\* a value satisfies a tier when it is not nil and has all its methods
Satisfies(d, tier) == ~d.isNil /\ \A m \in tier : m \in d.methods

SatisfiesNoTier(d) ==
    ~Satisfies(d, ReadTier) /\ ~Satisfies(d, ReadWriteTier) /\ ~Satisfies(d, TempTier)

C4_FlagsHierarchy ==
    ctor # "" =>
        /\ fs.canTemp => fs.canWrite
        /\ fs.canWrite => fs.canRead
        /\ fs.canRead => fs.canNavigate
        /\ FlagsOf(fs) = flags0

\* a read-write facade without temp support after a call the driver failed
C4_Witness ==
    /\ ctor = "NewWithDriver"
    /\ phase = "called"
    /\ fs.canWrite /\ ~fs.canTemp
    /\ last.op = "WriteBytes"
    /\ last.err.kind = "DriverError"

---------------------------------------------------------------------------
(* Properties of the walker.                                               *)

\* a Walk that got past its capability check is running or has returned
InWalk == last.op = "Walk" /\ fs.canNavigate /\ phase \in {"walking", "called"}

WalkDone == InWalk /\ phase = "called"

IsPrefix(s, t) == Len(s) <= Len(t) /\ SubSeq(t, 1, Len(s)) = s

IsCallback(ev) == ev.kind \in {"visit", "enter", "leave"}

\* the callback invocations of the walk, in order
Callbacks == SelectSeq(events, IsCallback)

\* what a callback was invoked for
Invocation(kind, dir, e) ==
    [kind |-> kind, dir |-> dir, name |-> e.name, isDir |-> e.isDir]

Observed == [i \in 1..Len(Callbacks) |->
                Invocation(Callbacks[i].kind, Callbacks[i].dir, Callbacks[i])]

NoSkip == \A i \in DOMAIN events : ~events[i].skip

NoError == \A i \in DOMAIN events : events[i].err = NilErr

\* the enter callback of event i set the skip flag and returned no error
Skipped(i) == events[i].kind = "enter" /\ events[i].skip /\ events[i].err = NilErr

\* the callbacks a full walk of listing l of directory dir makes, with the
\* handlers that are registered: per entry visit, and for a directory enter,
\* the callbacks of its subtree and leave
RECURSIVE ExpectedCallbacks(_, _)
ExpectedCallbacks(dir, l) ==
    IF l = <<>> THEN <<>>
    ELSE LET e == Head(l)
             v == IF walkArgs.visit THEN <<Invocation("visit", dir, e)>> ELSE <<>>
             en == IF walkArgs.enter THEN <<Invocation("enter", dir, e)>> ELSE <<>>
             lv == IF walkArgs.leave THEN <<Invocation("leave", dir, e)>> ELSE <<>>
             d == IF e.isDir
                  THEN en \o ExpectedCallbacks(dir \o <<e.name>>, e.sub) \o lv
                  ELSE <<>>
         IN  v \o d \o ExpectedCallbacks(dir, Tail(l))

\* the directories entered and not yet left after the callbacks evs, from
\* the open directories open; ok is false when a leave is not for the
\* directory entered last
RECURSIVE OpenDirs(_, _)
OpenDirs(evs, open) ==
    IF evs = <<>> THEN [ok |-> TRUE, open |-> open]
    ELSE LET ev == Head(evs)
             d == ev.dir \o <<ev.name>>
         IN  IF ev.kind = "enter" THEN OpenDirs(Tail(evs), Append(open, d))
             ELSE IF ev.kind = "leave"
             THEN IF open # <<>> /\ open[Len(open)] = d
                  THEN OpenDirs(Tail(evs), SubSeq(open, 1, Len(open) - 1))
                  ELSE [ok |-> FALSE, open |-> open]
             ELSE OpenDirs(Tail(evs), open)

\* C5: in a Walk with SkipSubDirs unset, no skip and no error, the callbacks
\* come in the order visit(d), enter(d), the callbacks of d's subtree,
\* leave(d), and then the visit of d's next sibling; enter and leave are
\* properly nested: a leave is for the directory entered last and not yet
\* left, and when Walk returns every entered directory was left.
C5_CallbackOrder ==
    (InWalk /\ ~walkArgs.SkipSubDirs /\ NoSkip /\ NoError) =>
        /\ IsPrefix(Observed, ExpectedCallbacks(<<>>, tree))
        /\ phase = "called" =>
               /\ Observed = ExpectedCallbacks(<<>>, tree)
               /\ last.err = NilErr
        /\ (walkArgs.enter /\ walkArgs.leave) =>
               /\ OpenDirs(Callbacks, <<>>).ok
               /\ phase = "called" => OpenDirs(Callbacks, <<>>).open = <<>>

\* a full walk with all three handlers returned: an entry inside a directory
\* was visited, the directory was left, and its next sibling was visited
C5_Witness ==
    /\ WalkDone /\ ~walkArgs.SkipSubDirs /\ NoSkip /\ NoError
    /\ walkArgs.visit /\ walkArgs.enter /\ walkArgs.leave
    /\ \E i \in 1..Len(Callbacks) - 1 :
        /\ Callbacks[i].kind = "leave"
        /\ Callbacks[i + 1].kind = "visit"
        /\ Callbacks[i - 1].kind = "visit"
        /\ Callbacks[i - 1].dir # <<>>

\* C6: when the visit callback returns an error E, at any depth, nothing is
\* invoked after it (no visit of a later entry in particular), E is handed
\* up through the activations, and Walk returns exactly E.
C6_VisitErrorReturned ==
    InWalk =>
        \A i \in DOMAIN events :
            (events[i].kind = "visit" /\ events[i].err # NilErr) =>
                /\ i = Len(events)
                /\ ret = events[i].err
                /\ phase = "called" => last.err = events[i].err

\* Walk returned the error of a visit made inside a directory, with a later
\* entry of the root never visited
C6_Witness ==
    /\ WalkDone
    /\ Len(tree) = 2
    /\ events[Len(events)].kind = "visit"
    /\ events[Len(events)].dir # <<>>
    /\ events[Len(events)].err # NilErr
    /\ last.err = events[Len(events)].err

\* C7: when an enter callback, a leave callback or a ReadDir of the root or
\* of a nested directory fails with E, nothing is invoked after it (no leave
\* for the directories entered around the failure in particular), E is
\* handed up through the activations, and Walk returns exactly E.
C7_WalkErrorStopsWalk ==
    InWalk =>
        \A i \in DOMAIN events :
            (events[i].kind \in {"enter", "leave", "ReadDir"} /\ events[i].err # NilErr) =>
                /\ i = Len(events)
                /\ ret = events[i].err
                /\ phase = "called" => last.err = events[i].err

\* Walk returned the error of the ReadDir of a directory two levels down,
\* with leave registered and both enclosing directories entered
C7_Witness ==
    /\ WalkDone
    /\ walkArgs.enter /\ walkArgs.leave
    /\ events[Len(events)].kind = "ReadDir"
    /\ Len(events[Len(events)].dir) = 2
    /\ last.err = events[Len(events)].err
    /\ last.err # NilErr

\* the ReadDir calls the driver got were for directory d or one below it
ListedBelow(d) ==
    \E c \in DOMAIN calls : calls[c].method = "ReadDir" /\ IsPrefix(d, calls[c].args[1])

\* C8: when the enter callback sets the skip flag for a directory d, Walk
\* does not recurse into d: the driver never gets a ReadDir for d, no
\* callback is invoked for an entry inside d's subtree, and the skip makes
\* no error: a Walk in which nothing failed returns nil.
C8_SkipDoesNotRecurse ==
    InWalk =>
        \A i \in DOMAIN events :
            (events[i].kind = "enter" /\ events[i].skip) =>
                LET d == events[i].dir \o <<events[i].name>>
                IN  /\ ~ListedBelow(d)
                    /\ \A j \in DOMAIN events : ~IsPrefix(d, events[j].dir)
                    /\ (phase = "called" /\ NoError) => last.err = NilErr

\* Walk returned nil after the skip of a directory that has an entry, with a
\* visit handler registered
C8_Witness ==
    /\ WalkDone
    /\ walkArgs.visit
    /\ last.err = NilErr
    /\ \E i \in DOMAIN events :
        /\ Skipped(i)
        /\ NodeAt(tree, events[i].dir \o <<events[i].name>>).sub # <<>>

RECURSIVE After(_, _)
After(l, n) ==
    IF l = <<>> THEN <<>>
    ELSE IF Head(l).name = n THEN Tail(l)
    ELSE After(Tail(l), n)

Parent(p) == SubSeq(p, 1, Len(p) - 1)

Visits ==
    LET IsVisit(ev) == ev.kind = "visit"
        vs == SelectSeq(events, IsVisit)
    IN  [i \in 1..Len(vs) |-> [dir |-> vs[i].dir, name |-> vs[i].name, isDir |-> vs[i].isDir]]

\* one visit per entry of the root listing, in its order
RootVisits ==
    [i \in 1..Len(tree) |-> [dir |-> <<>>, name |-> tree[i].name, isDir |-> tree[i].isDir]]

\* C10: with SkipSubDirs set, Walk invokes visit once for each immediate
\* child of the root, file or directory, and for no deeper entry, calls
\* ReadDir on the root only, and invokes no enter and no leave callback.
C10_SkipSubDirsIsFlat ==
    (InWalk /\ walkArgs.SkipSubDirs) =>
        /\ \A i \in DOMAIN events : events[i].kind \notin {"enter", "leave"}
        /\ \A c \in DOMAIN calls :
               calls[c].method = "ReadDir" => calls[c].args = <<walkArgs.dir>> /\ c = 1
        /\ IsPrefix(Visits, RootVisits)
        /\ (phase = "called" /\ NoError /\ walkArgs.visit) => Visits = RootVisits
        /\ ~walkArgs.visit => Visits = <<>>

\* a flat Walk with all three handlers returned nil on a root with a file
\* and a directory that has an entry
C10_Witness ==
    /\ WalkDone
    /\ walkArgs.SkipSubDirs
    /\ walkArgs.visit /\ walkArgs.enter /\ walkArgs.leave
    /\ last.err = NilErr
    /\ Len(Visits) = 2
    /\ \E i \in DOMAIN tree : tree[i].isDir /\ tree[i].sub # <<>>

---------------------------------------------------------------------------
(* File info comparers and Sort.  A FileInfoComparer value is one of the   *)
(* exported comparers or the closure NewCompoundComparer returns, which    *)
(* holds its list of comparers.                                            *)

\* the largest number of entries of the short listings handed to Sort
MaxSorted == 3
\* the largest number of comparers handed to NewCompoundComparer
MaxCompound == 2

\* the names of a listing to sort, in the order of Go's string comparison
SortNames == <<"a", "b", "c", "d", "e", "f", "g">>

\* OrderFilesFirst that only ever moves f1 up
OrderFilesFirstOneSided(f1, f2) ==
    IF ~f1.isDir /\ f2.isDir THEN -1
    ELSE 0

OrderFilesFirst(f1, f2) ==
    IF ~f1.isDir /\ f2.isDir THEN -1
    ELSE IF f1.isDir /\ ~f2.isDir THEN 1
    ELSE 0

OrderDirectoriesFirst(f1, f2) == -OrderFilesFirst(f1, f2)

\* Less(n1, n2) is n1 < n2 of two names
OrderLexicographicAsc(f1, f2) ==
    LET Less(n1, n2) ==
            \E i, j \in 1..Len(SortNames) :
                SortNames[i] = n1 /\ SortNames[j] = n2 /\ i < j
    IN  IF Less(f1.name, f2.name) THEN -1
        ELSE IF Less(f2.name, f1.name) THEN 1
        ELSE 0

OrderLexicographicDesc(f1, f2) == -OrderLexicographicAsc(f1, f2)

OrderDefault(f1, f2) ==
    IF OrderDirectoriesFirst(f1, f2) # 0 THEN OrderDirectoriesFirst(f1, f2)
    ELSE OrderLexicographicAsc(f1, f2)

\* an exported comparer as a value
Comparer(which) == [kind |-> which, parts |-> <<>>]

Comparers ==
    { Comparer("OrderDefault"), Comparer("OrderFilesFirst"),
      Comparer("OrderDirectoriesFirst"), Comparer("OrderLexicographicAsc"),
      Comparer("OrderLexicographicDesc") }

\* NewCompoundComparer(compareFuncs...): the closure over compareFuncs
NewCompoundComparer(compareFuncs) == [kind |-> "Compound", parts |-> compareFuncs]

RECURSIVE Compare(_, _, _)
RECURSIVE CompoundLoop(_, _, _)

\* the loop of the closure with the test of order left out
CompoundLoopFirstOnly(compareFuncs, f1, f2) ==
    IF compareFuncs = <<>> THEN 0
    ELSE Compare(Head(compareFuncs), f1, f2)

\* the body of the closure: the loop over compareFuncs and the return 0
CompoundLoop(compareFuncs, f1, f2) ==
    IF compareFuncs = <<>> THEN 0
    ELSE LET order == Compare(Head(compareFuncs), f1, f2)
         IN  IF order # 0 THEN order
             ELSE CompoundLoop(Tail(compareFuncs), f1, f2)

\* cmp(f1, f2): the call of a comparer value
Compare(cmp, f1, f2) ==
    CASE cmp.kind = "OrderDefault" -> OrderDefault(f1, f2)
      [] cmp.kind = "OrderFilesFirst" -> OrderFilesFirst(f1, f2)
      [] cmp.kind = "OrderDirectoriesFirst" -> OrderDirectoriesFirst(f1, f2)
      [] cmp.kind = "OrderLexicographicAsc" -> OrderLexicographicAsc(f1, f2)
      [] cmp.kind = "OrderLexicographicDesc" -> OrderLexicographicDesc(f1, f2)
      [] cmp.kind = "Compound" -> CompoundLoop(cmp.parts, f1, f2)

\* files[i], files[j] = files[j], files[i]
Swap(files, i, j) == [files EXCEPT ![i] = files[j], ![j] = files[i]]

\* the less function Sort hands to sort.Slice, on a slice s
SortLess(s, cmp, i, j) == Compare(cmp, s[i], s[j]) < 0

\* sort.Slice, insertion sort: the inner loop, for j > a && less(j, j-1)
RECURSIVE InsertionInner(_, _, _)
InsertionInner(files, cmp, j) ==
    IF j > 1 /\ SortLess(files, cmp, j, j - 1)
    THEN InsertionInner(Swap(files, j, j - 1), cmp, j - 1)
    ELSE files

\* sort.Slice, insertion sort: the outer loop from index i
RECURSIVE InsertionSort(_, _, _)
InsertionSort(files, cmp, i) ==
    IF i > Len(files) THEN files
    ELSE InsertionSort(InsertionInner(files, cmp, i), cmp, i + 1)

\* sort.Slice before Go 1.19, at most 12 elements: the ShellSort pass with
\* gap 6 that precedes the insertion sort, from index i
RECURSIVE ShellPass(_, _, _)
ShellPass(files, cmp, i) ==
    IF i > Len(files) THEN files
    ELSE ShellPass(IF SortLess(files, cmp, i, i - 6) THEN Swap(files, i, i - 6)
                   ELSE files,
                   cmp, i + 1)

\* Sort with the call of sort.Slice left out
SortKeepsListing(files, cmp) == {files}

\* Sort(files, cmp) for at most 12 files: what files holds afterwards.
\* sort.Slice is not a stable sort; what it does with equal elements
\* depends on the Go release the program is built with: an insertion sort
\* (Go 1.19 and later), or the ShellSort pass and then the insertion sort.
Sort(files, cmp) ==
    { InsertionSort(files, cmp, 2),
      InsertionSort(ShellPass(files, cmp, 7), cmp, 2) }

---------------------------------------------------------------------------
(* Walk with WalkOptions and the isRoot argument of its callbacks.  The    *)
(* root directory is walked as the one entry of its own parent: the stack  *)
(* starts with an activation that holds the root's FileInfo alone, and the *)
(* callbacks made from that activation are the ones with isRoot = true.    *)

\* a VisitOrder that was not set
NilComparer == [kind |-> "nil", parts |-> <<>>]

\* the WalkOptions handed to Walk: nil, every setting of the three flags in
\* the default order, and the other orders with no flag set
WalkOptionValues ==
    { [ optionsNil |-> TRUE, SkipSubDirs |-> FALSE, VisitRootDir |-> FALSE,
        EnterLeaveCallbacksForRoot |-> FALSE, VisitOrder |-> NilComparer ] }
    \cup
    { [ optionsNil |-> FALSE, SkipSubDirs |-> s, VisitRootDir |-> v,
        EnterLeaveCallbacksForRoot |-> el, VisitOrder |-> NilComparer ] :
        s \in BOOLEAN, v \in BOOLEAN, el \in BOOLEAN }
    \cup
    { [ optionsNil |-> FALSE, SkipSubDirs |-> FALSE, VisitRootDir |-> FALSE,
        EnterLeaveCallbacksForRoot |-> FALSE, VisitOrder |-> c ] :
        c \in { Comparer("OrderFilesFirst"), Comparer("OrderLexicographicDesc"),
                NewCompoundComparer(<<Comparer("OrderDirectoriesFirst"),
                                      Comparer("OrderLexicographicDesc")>>) } }

\* the directories handed to Walk
WalkDirs == {<<>>, <<"a">>}

\* path.Dir(p)
PathDir(p) == IF p = <<>> THEN <<>> ELSE SubSeq(p, 1, Len(p) - 1)

\* the order the entries of a directory are processed in
VisitOrderOf(args) ==
    IF args.VisitOrder = NilComparer THEN Comparer("OrderDefault")
    ELSE args.VisitOrder

\* the top activation is the one that holds the root directory
AtRoot == Len(stack) = 1

\* one invocation of a callback with its isRoot argument
RootEvent(kind, dir, f, isRoot, skip, e) ==
    [ kind |-> kind, dir |-> dir, name |-> f.name, isDir |-> f.isDir,
      isRoot |-> isRoot, skip |-> skip, err |-> e ]

\* Walk(dir, visit, enter, leave, options): the gate, and the FileInfo of
\* the root directory when a callback for it is asked for
OptionsWalk ==
    /\ phase = "ready"
    /\ \E dir \in WalkDirs, v \in BOOLEAN, e \in BOOLEAN, l \in BOOLEAN,
          o \in WalkOptionValues, fail \in BOOLEAN :
        LET args == [ dir |-> dir, visit |-> v, enter |-> e, leave |-> l,
                      optionsNil |-> o.optionsNil, SkipSubDirs |-> o.SkipSubDirs,
                      VisitRootDir |-> o.VisitRootDir,
                      EnterLeaveCallbacksForRoot |-> o.EnterLeaveCallbacksForRoot,
                      VisitOrder |-> o.VisitOrder ]
            needsInfo == o.VisitRootDir \/ o.EnterLeaveCallbacksForRoot
            st == Stat(fs, dir, Run(<<>>, IF fail THEN 1 ELSE 0, FALSE, <<>>))
            call == [NoCall EXCEPT !.op = "Walk", !.args = <<dir>>]
        IN  /\ events' = <<>>
            /\ ret' = NilErr
            /\ walkArgs' = args
            /\ IF ~fs.canNavigate
               THEN /\ ~fail
                    /\ calls' = <<>>
                    /\ last' = [call EXCEPT !.err = ErrNotSupported("Walk")]
                    /\ phase' = "called"
                    /\ UNCHANGED stack
               ELSE IF ~needsInfo
               THEN /\ ~fail
                    /\ calls' = <<>>
                    /\ last' = call
                    /\ stack' = << [ dir |-> PathDir(dir), files |-> <<RootInfo>>,
                                     i |-> 1, at |-> "visit" ] >>
                    /\ phase' = "walking"
               ELSE /\ calls' = st.calls
                    /\ IF st.err # NilErr
                       THEN /\ last' = [call EXCEPT !.err = st.err]
                            /\ phase' = "called"
                            /\ UNCHANGED stack
                       ELSE /\ last' = call
                            /\ stack' = << [ dir |-> PathDir(dir), files |-> <<st.val>>,
                                             i |-> 1, at |-> "visit" ] >>
                            /\ phase' = "walking"
    /\ UNCHANGED <<ctor, driverArg, fs, flags0, tree, bytes>>

\* the listing of a directory in the visit order
OptionsWalkReadDir ==
    /\ phase = "walking"
    /\ Top.at = "ReadDir"
    /\ \E fail \in BOOLEAN :
        LET st == ReadDir(fs, Top.dir,
                          Run(calls, IF fail THEN Len(calls) + 1 ELSE 0, FALSE, <<>>))
        IN  /\ calls' = st.calls
            /\ events' = Append(events,
                                RootEvent("ReadDir", Top.dir, RootInfo, FALSE, FALSE, st.err))
            /\ IF st.err # NilErr THEN WalkReturn(st.err)
               ELSE IF st.val = <<>> THEN WalkReturn(NilErr)
               ELSE \E sorted \in Sort(st.val, VisitOrderOf(walkArgs)) :
                      WalkGoto([Top EXCEPT !.files = sorted, !.i = 1, !.at = "visit"])
    /\ UNCHANGED <<ctor, driverArg, fs, flags0, tree, bytes, walkArgs>>

\* the visit callback of an entry made with isRoot = true for every entry
OptionsWalkVisitAlwaysRoot ==
    /\ phase = "walking"
    /\ Top.at = "visit"
    /\ LET f == Top.files[Top.i]
           asked == walkArgs.visit /\ (AtRoot => walkArgs.VisitRootDir)
           goOn == IF AtRoot \/ (~walkArgs.SkipSubDirs /\ f.isDir)
                   THEN WalkGoto([Top EXCEPT !.at = "enter"])
                   ELSE WalkNextFile
       IN  IF asked
           THEN \E fails \in BOOLEAN :
                  LET e == IF fails THEN CallbackError("visit", Len(events) + 1)
                           ELSE NilErr
                  IN  /\ events' = Append(events,
                                          RootEvent("visit", Top.dir, f, TRUE, FALSE, e))
                      /\ IF e # NilErr THEN WalkReturn(e) ELSE goOn
           ELSE /\ events' = events
                /\ goOn
    /\ UNCHANGED <<ctor, driverArg, fs, flags0, tree, bytes, walkArgs, calls>>

\* the visit callback of an entry: of the root directory when VisitRootDir
\* is set (isRoot = true), of every entry below it (isRoot = false)
OptionsWalkVisit ==
    /\ phase = "walking"
    /\ Top.at = "visit"
    /\ LET f == Top.files[Top.i]
           asked == walkArgs.visit /\ (AtRoot => walkArgs.VisitRootDir)
           goOn == IF AtRoot \/ (~walkArgs.SkipSubDirs /\ f.isDir)
                   THEN WalkGoto([Top EXCEPT !.at = "enter"])
                   ELSE WalkNextFile
       IN  IF asked
           THEN \E fails \in BOOLEAN :
                  LET e == IF fails THEN CallbackError("visit", Len(events) + 1)
                           ELSE NilErr
                  IN  /\ events' = Append(events,
                                          RootEvent("visit", Top.dir, f, AtRoot, FALSE, e))
                      /\ IF e # NilErr THEN WalkReturn(e) ELSE goOn
           ELSE /\ events' = events
                /\ goOn
    /\ UNCHANGED <<ctor, driverArg, fs, flags0, tree, bytes, walkArgs, calls>>

\* the enter callback of a directory and the descent into it: of the root
\* directory when EnterLeaveCallbacksForRoot is set (isRoot = true), of
\* every directory below it (isRoot = false).  What a skip asked for by
\* the enter callback of the root directory does is not laid down: the
\* callback of the model asks for none there.
OptionsWalkEnter ==
    /\ phase = "walking"
    /\ Top.at = "enter"
    /\ LET f == Top.files[Top.i]
           asked == walkArgs.enter /\ (AtRoot => walkArgs.EnterLeaveCallbacksForRoot)
           below == IF AtRoot THEN walkArgs.dir ELSE PathJoin(Top.dir, f.name)
           recurse ==
               /\ stack' = Append([stack EXCEPT ![Len(stack)].at = "call"], Frame(below))
               /\ UNCHANGED <<ret, last, phase>>
       IN  IF asked
           THEN \E fails \in BOOLEAN, skipDir \in IF AtRoot THEN {FALSE} ELSE BOOLEAN :
                  LET e == IF fails THEN CallbackError("enter", Len(events) + 1)
                           ELSE NilErr
                  IN  /\ events' = Append(events,
                                          RootEvent("enter", Top.dir, f, AtRoot, skipDir, e))
                      /\ IF e # NilErr THEN WalkReturn(e)
                         ELSE IF skipDir THEN WalkReturn(NilErr)
                         ELSE recurse
           ELSE /\ events' = events
                /\ recurse
    /\ UNCHANGED <<ctor, driverArg, fs, flags0, tree, bytes, walkArgs, calls>>

\* the leave callback made for the root directory whether or not
\* EnterLeaveCallbacksForRoot is set
OptionsWalkLeaveAlwaysForRoot ==
    /\ phase = "walking"
    /\ Top.at = "returned"
    /\ LET f == Top.files[Top.i]
           asked == walkArgs.leave
       IN  IF ret # NilErr
           THEN /\ events' = events
                /\ WalkReturn(ret)
           ELSE IF asked
           THEN \E fails \in BOOLEAN :
                  LET e == IF fails THEN CallbackError("leave", Len(events) + 1)
                           ELSE NilErr
                  IN  /\ events' = Append(events,
                                          RootEvent("leave", Top.dir, f, AtRoot, FALSE, e))
                      /\ IF e # NilErr THEN WalkReturn(e) ELSE WalkNextFile
           ELSE /\ events' = events
                /\ WalkNextFile
    /\ UNCHANGED <<ctor, driverArg, fs, flags0, tree, bytes, walkArgs, calls>>

\* after the descent into a directory: its error, then the leave callback:
\* of the root directory when EnterLeaveCallbacksForRoot is set (isRoot =
\* true), of every directory below it (isRoot = false)
OptionsWalkLeave ==
    /\ phase = "walking"
    /\ Top.at = "returned"
    /\ LET f == Top.files[Top.i]
           asked == walkArgs.leave /\ (AtRoot => walkArgs.EnterLeaveCallbacksForRoot)
       IN  IF ret # NilErr
           THEN /\ events' = events
                /\ WalkReturn(ret)
           ELSE IF asked
           THEN \E fails \in BOOLEAN :
                  LET e == IF fails THEN CallbackError("leave", Len(events) + 1)
                           ELSE NilErr
                  IN  /\ events' = Append(events,
                                          RootEvent("leave", Top.dir, f, AtRoot, FALSE, e))
                      /\ IF e # NilErr THEN WalkReturn(e) ELSE WalkNextFile
           ELSE /\ events' = events
                /\ WalkNextFile
    /\ UNCHANGED <<ctor, driverArg, fs, flags0, tree, bytes, walkArgs, calls>>

OptionsWalkNext ==
    \/ OptionsWalk
    \/ OptionsWalkReadDir
    \/ OptionsWalkVisit
    \/ OptionsWalkEnter
    \/ OptionsWalkLeave
    \/ Continue

\* a facade in hand over a tree: the zero value or one over a read driver
OptionsWalkInit ==
    /\ phase = "ready"
    /\ \E d \in {NilDriver, Value(ReadFileSystemDriver)} :
        /\ driverArg = d
        /\ ctor = IF d.isNil THEN "ZeroValue" ELSE "NewWithDriver"
        /\ fs = IF d.isNil THEN ZeroFileSystem ELSE NewWithDriverResult(d)
        /\ flags0 = FlagsOf(fs)
    /\ tree \in Listings(MaxNodes)
    /\ bytes = NoContent
    /\ calls = <<>>
    /\ last = NoCall
    /\ walkArgs = NoWalk
    /\ stack = <<>>
    /\ ret = NilErr
    /\ events = <<>>

OptionsWalkSpec == OptionsWalkInit /\ [][OptionsWalkNext]_vars

---------------------------------------------------------------------------
(* Claims about Walk with WalkOptions.                                     *)

\* the FileInfo of the directory handed to Walk
WalkedDirInfo ==
    [name |-> BaseName(walkArgs.dir), isDir |-> NodeAt(tree, walkArgs.dir).isDir]

\* the places in Callbacks of the invocations of a kind with isRoot = true
RootCallbacks(kind) ==
    {i \in DOMAIN Callbacks : Callbacks[i].kind = kind /\ Callbacks[i].isRoot}

\* the walk returned nil to its caller
WalkSucceeded == WalkDone /\ last.err = NilErr

\* C11: a walk of D without VisitRootDir makes no visit invocation with
\* isRoot = true; a walk with VisitRootDir and a visit callback makes its
\* first callback invocation the visit of D itself, with D's FileInfo and
\* isRoot = true, and no other visit invocation of the walk has isRoot =
\* true; a walk that returned nil has made that invocation.
C11_VisitRootToggle ==
    InWalk =>
        /\ ~walkArgs.VisitRootDir => RootCallbacks("visit") = {}
        /\ walkArgs.VisitRootDir /\ walkArgs.visit /\ Callbacks # <<>> =>
            /\ RootCallbacks("visit") = {1}
            /\ Callbacks[1].name = WalkedDirInfo.name
            /\ Callbacks[1].isDir = WalkedDirInfo.isDir
        /\ walkArgs.VisitRootDir /\ walkArgs.visit /\ WalkSucceeded =>
            Callbacks # <<>>

C11_Witness ==
    /\ WalkSucceeded
    /\ walkArgs.VisitRootDir
    /\ walkArgs.dir = <<"a">>
    /\ Len(Callbacks) >= 3
    /\ Callbacks[1].kind = "visit" /\ Callbacks[1].isRoot /\ Callbacks[1].name = "a"
    /\ \E i \in 2..Len(Callbacks) : Callbacks[i].kind = "visit" /\ ~Callbacks[i].isRoot

VisitsOf(dir) ==
    SelectSeq(Callbacks,
              LAMBDA ev : ev.kind = "visit" /\ ~ev.isRoot /\ ev.dir = dir)

\* C13: in a walk with a VisitOrder cmp, of two entries of one directory
\* the one visited first, x, and the one visited later, y, have cmp(y, x)
\* not negative, whatever order the driver listed them in.
C13_VisitedInVisitOrder ==
    InWalk /\ walkArgs.VisitOrder # NilComparer =>
        \A dir \in Paths :
            \A i, j \in DOMAIN VisitsOf(dir) :
                i < j => Compare(walkArgs.VisitOrder, VisitsOf(dir)[j], VisitsOf(dir)[i]) >= 0

C13_Witness ==
    /\ WalkSucceeded
    /\ walkArgs.VisitOrder = Comparer("OrderFilesFirst")
    /\ walkArgs.dir = <<>>
    /\ Len(tree) = 2
    /\ tree[1].isDir /\ ~tree[2].isDir
    /\ Len(VisitsOf(<<>>)) = 2
    /\ VisitsOf(<<>>)[1].name = tree[2].name
    /\ VisitsOf(<<>>)[2].name = tree[1].name

---------------------------------------------------------------------------
(* The functions on their own: Sort, the compound comparer, the OpenFlags  *)
(* setters and ReadLines, each applied to inputs drawn at the start.       *)

\* the largest number of characters of a file content handed to ReadLines
MaxLen == 4

\* the FileInfos with one of the first n names
SortInfos(n) == [name : {SortNames[i] : i \in 1..n}, isDir : BOOLEAN]

\* listings of at most MaxSorted entries, in any order, names distinct
ShortListings ==
    { l \in UNION {[1..k -> SortInfos(MaxSorted)] : k \in 0..MaxSorted} :
        \A i, j \in DOMAIN l : i # j => l[i].name # l[j].name }

\* listings that hold every name once, in the order of the names
LongListings ==
    { [i \in 1..Len(SortNames) |-> [name |-> SortNames[i], isDir |-> d[i]]] :
        d \in [1..Len(SortNames) -> BOOLEAN] }

\* the lists of at most MaxCompound exported comparers
ComparerLists == UNION {[1..k -> Comparers] : k \in 0..MaxCompound}

\* file contents of at most MaxLen characters
FileContents == UNION {[1..k -> {"x", "\r", "\n"}] : k \in 0..MaxLen}

\* a facade over a read driver and a file to read, and the inputs of one of
\* the functions
FuncInit ==
    /\ phase = "ready"
    /\ ctor = "NewWithDriver"
    /\ driverArg = Value(ReadFileSystemDriver)
    /\ fs = NewWithDriverResult(Value(ReadFileSystemDriver))
    /\ flags0 = FlagsOf(fs)
    /\ tree = <<File("a")>>
    /\ bytes = NoContent
    /\ calls = <<>>
    /\ walkArgs = NoWalk
    /\ stack = <<>>
    /\ ret = NilErr
    /\ events = <<>>
    /\ \/ \E files \in ShortListings \cup LongListings,
            cmp \in Comparers \cup {NewCompoundComparer(<<Comparer("OrderFilesFirst"),
                                                          Comparer("OrderLexicographicAsc")>>)} :
            last = [NoCall EXCEPT !.op = "Sort", !.args = <<files, cmp>>]
       \/ \E cs \in ComparerLists, f1 \in SortInfos(2), f2 \in SortInfos(2) :
            last = [NoCall EXCEPT !.op = "NewCompoundComparer", !.args = <<cs, f1, f2>>]
       \/ \E start \in {OpenReadOnly, OpenWriteOnly, OpenReadWrite} :
            last = [NoCall EXCEPT !.op = "OpenFlags", !.args = <<start>>, !.val = start]
       \/ \E content \in FileContents :
            last = [NoCall EXCEPT !.op = "ReadLines", !.args = <<<<"a">>, content>>]

\* Sort(files, cmp): files afterwards
ApplySort ==
    /\ phase = "ready"
    /\ last.op = "Sort"
    /\ \E sorted \in Sort(last.args[1], last.args[2]) :
        last' = [last EXCEPT !.val = sorted]
    /\ phase' = "called"
    /\ UNCHANGED <<ctor, driverArg, fs, flags0, tree, bytes, calls, walkArgs, stack, ret, events>>

\* NewCompoundComparer(cs...)(f1, f2)
ApplyCompoundComparer ==
    /\ phase = "ready"
    /\ last.op = "NewCompoundComparer"
    /\ last' = [last EXCEPT !.val = Compare(NewCompoundComparer(last.args[1]),
                                            last.args[2], last.args[3])]
    /\ phase' = "called"
    /\ UNCHANGED <<ctor, driverArg, fs, flags0, tree, bytes, calls, walkArgs, stack, ret, events>>

\* flag = flag.Append(), .Create(), .Exclusive(), .Sync() or .Truncate()
ApplySetter ==
    /\ last.op = "OpenFlags"
    /\ \E flag \in { Append_(last.val), Create(last.val), Exclusive(last.val),
                     Sync(last.val), Truncate(last.val) } :
        last' = [last EXCEPT !.val = flag]
    /\ phase' = "called"
    /\ UNCHANGED <<ctor, driverArg, fs, flags0, tree, bytes, calls, walkArgs, stack, ret, events>>

\* ReadLines(path) of a file that holds content
ApplyReadLines ==
    /\ phase = "ready"
    /\ last.op = "ReadLines"
    /\ LET st == ReadLines(fs, last.args[1], Run(<<>>, 0, FALSE, last.args[2]))
       IN  /\ last' = [last EXCEPT !.err = st.err, !.val = st.val, !.io = st.io,
                                   !.handles = st.handles]
           /\ calls' = st.calls
    /\ phase' = "called"
    /\ UNCHANGED <<ctor, driverArg, fs, flags0, tree, bytes, walkArgs, stack, ret, events>>

FuncNext == ApplySort \/ ApplyCompoundComparer \/ ApplySetter \/ ApplyReadLines

FuncSpec == FuncInit /\ [][FuncNext]_vars

---------------------------------------------------------------------------
(* Claims about the functions.                                             *)

\* the place of entry f in listing l
PlaceIn(l, f) == CHOOSE i \in DOMAIN l : l[i] = f

\* Sort was applied: its input, its comparer and its result
Sorted == phase = "called" /\ last.op = "Sort"

\* C14: the listing Sort leaves behind holds the entries of the listing it
\* was given, each once, and two entries the comparer returns 0 for are in
\* the order they were in before.
C14_SortIsStable ==
    Sorted =>
        LET files == last.args[1]
            cmp == last.args[2]
            out == last.val
        IN  /\ Len(out) = Len(files)
            /\ \A i \in DOMAIN files : \E j \in DOMAIN out : out[j] = files[i]
            /\ \A i, j \in DOMAIN files :
                i < j /\ Compare(cmp, files[i], files[j]) = 0 =>
                    PlaceIn(out, files[i]) < PlaceIn(out, files[j])

\* the smallest i with a result of cs[i] that is not 0, or 0 without one
FirstNonZero(cs, f1, f2) ==
    LET nz == {i \in DOMAIN cs : Compare(cs[i], f1, f2) # 0}
    IN  IF nz = {} THEN 0 ELSE CHOOSE i \in nz : \A k \in nz : i <= k

\* C15: NewCompoundComparer(c1..cn)(f1, f2) is ci(f1, f2) for the smallest
\* i with ci(f1, f2) # 0, and 0 when there is no such i.
C15_CompoundIsFirstNonZero ==
    phase = "called" /\ last.op = "NewCompoundComparer" =>
        LET cs == last.args[1]
            f1 == last.args[2]
            f2 == last.args[3]
            i == FirstNonZero(cs, f1, f2)
        IN  last.val = IF i = 0 THEN 0 ELSE Compare(cs[i], f1, f2)

\* the second comparer is the first with a result, and a third one disagrees
C15_Witness ==
    /\ phase = "called" /\ last.op = "NewCompoundComparer"
    /\ Len(last.args[1]) = 2
    /\ FirstNonZero(last.args[1], last.args[2], last.args[3]) = 2
    /\ last.val = 1

\* C16: after any sequence of setters on one of the three access constants,
\* Access() is that constant, IsRead() holds exactly for OpenReadOnly and
\* OpenReadWrite and IsWrite() exactly for OpenWriteOnly and OpenReadWrite.
C16_SettersKeepAccess ==
    last.op = "OpenFlags" =>
        /\ Access(last.val) = last.args[1]
        /\ IsRead(last.val) <=> last.args[1] \in {OpenReadOnly, OpenReadWrite}
        /\ IsWrite(last.val) <=> last.args[1] \in {OpenWriteOnly, OpenReadWrite}

\* every setter was applied to OpenWriteOnly
C16_Witness ==
    /\ last.op = "OpenFlags"
    /\ last.args[1] = OpenWriteOnly
    /\ last.val = OpenWriteOnly + O_APPEND + O_CREATE + O_EXCL + O_SYNC + O_TRUNC

\* the line terminators of a content: CRLF is one, a CR or LF alone is one
RECURSIVE Terminators(_)
Terminators(c) ==
    IF c = <<>> THEN 0
    ELSE IF Len(c) >= 2 /\ c[1] = "\r" /\ c[2] = "\n"
         THEN 1 + Terminators(SubSeq(c, 3, Len(c)))
    ELSE IF c[1] \in {"\r", "\n"} THEN 1 + Terminators(Tail(c))
    ELSE Terminators(Tail(c))

\* C18: the list ReadLines returns has no CR and no LF in any element, has
\* one element more than the content has line terminators, and ends with an
\* empty element when the content ends with a terminator.
C18_ReadLinesSplitsAtTerminators ==
    phase = "called" /\ last.op = "ReadLines" /\ last.err = NilErr =>
        LET content == last.args[2]
            lines == last.val
        IN  /\ \A i \in DOMAIN lines : \A k \in DOMAIN lines[i] :
                    lines[i][k] \notin {"\r", "\n"}
            /\ Len(lines) = Terminators(content) + 1
            /\ content # <<>> /\ content[Len(content)] \in {"\r", "\n"} =>
                    lines[Len(lines)] = <<>>
            /\ StringsJoin(lines, <<>>) = SelectSeq(content, LAMBDA ch : ch \notin {"\r", "\n"})

\* a content with a CRLF and a lone CR at its end
C18_Witness ==
    /\ phase = "called" /\ last.op = "ReadLines" /\ last.err = NilErr
    /\ last.args[2] = <<"x", "\r", "\n", "\r">>
    /\ last.val = <<<<"x">>, <<>>, <<>>>>

---------------------------------------------------------------------------
(* The facade over the LocalDriver on a disk: tree and bytes are the disk, *)
(* and a call changes them as the os calls of the driver do.  The disk     *)
(* fails a call only for what is on it (there is no failing device and no  *)
(* missing permission).  A directory lists its entries sorted by name, as  *)
(* ioutil.ReadDir returns them.                                            *)

\* ErrFileNotExists.Args(path).Make()
ErrFileNotExists(p) == [kind |-> "ErrFileNotExists", arg |-> "", id |-> 0, path |-> p]
\* ErrNotEmpty.Make()
ErrNotEmpty == [kind |-> "ErrNotEmpty", arg |-> "", id |-> 0, path |-> <<>>]

\* the listing l without its entry at path p
RECURSIVE RemoveNode(_, _)
RemoveNode(l, p) ==
    IF Len(p) = 1
    THEN SelectSeq(l, LAMBDA e : e.name # p[1])
    ELSE [i \in 1..Len(l) |->
            IF l[i].name = p[1] /\ l[i].isDir
            THEN [l[i] EXCEPT !.sub = RemoveNode(@, Tail(p))]
            ELSE l[i]]

\* the listing l with entry e put into the directory at path dir, in the
\* place of an entry of its name if there is one, sorted by name
RECURSIVE PutNode(_, _, _)
PutNode(l, dir, e) ==
    IF dir = <<>>
    THEN SelectSeq(l, LAMBDA x : OrderLexicographicAsc(x, e) < 0)
             \o <<e>> \o SelectSeq(l, LAMBDA x : OrderLexicographicAsc(x, e) > 0)
    ELSE [i \in 1..Len(l) |->
            IF l[i].name = dir[1] /\ l[i].isDir
            THEN [l[i] EXCEPT !.sub = PutNode(@, Tail(dir), e)]
            ELSE l[i]]

\* the bytes b without those of the files at and below path p
BytesWithout(b, p) ==
    [q \in Paths |-> IF IsPrefix(p, q) THEN <<>> ELSE b[q]]

\* what a call of the driver leaves: its error, and the disk
Outcome(e, t, b) == [err |-> e, tree |-> t, bytes |-> b]

\* LocalDriver.OpenFile(path, flags): os.OpenFile on disk (t, b)
LocalOpenFile(t, b, path, flags) ==
    LET node == NodeAt(t, path)
        parent == NodeAt(t, PathDir(path))
        has(bit) == BitAnd(flags, bit) # 0
    IN  IF ~parent.found THEN Outcome(ErrFileNotExists(path), t, b)
        ELSE IF ~parent.isDir THEN Outcome(Err("Could not open file"), t, b)
        ELSE IF ~node.found
        THEN IF has(O_CREATE)
             THEN Outcome(NilErr, PutNode(t, PathDir(path), File(BaseName(path))),
                          [b EXCEPT ![path] = <<>>])
             ELSE Outcome(ErrFileNotExists(path), t, b)
        ELSE IF node.isDir
        THEN IF IsWrite(flags) \/ has(O_CREATE)
             THEN Outcome(Err("Could not open file"), t, b)
             ELSE Outcome(NilErr, t, b)
        ELSE IF has(O_CREATE) /\ has(O_EXCL)
        THEN Outcome(Err("Could not open file"), t, b)
        ELSE IF has(O_TRUNC) /\ IsWrite(flags)
        THEN Outcome(NilErr, t, [b EXCEPT ![path] = <<>>])
        ELSE Outcome(NilErr, t, b)

\* LocalDriver.CreateDirectory(path): os.MkdirAll on disk (t, b)
RECURSIVE LocalCreateDirectory(_, _, _)
LocalCreateDirectory(t, b, path) ==
    LET node == NodeAt(t, path)
        above == LocalCreateDirectory(t, b, PathDir(path))
    IN  IF node.found
        THEN IF node.isDir THEN Outcome(NilErr, t, b)
             ELSE Outcome(Err("Failed to create directory"), t, b)
        ELSE IF above.err # NilErr THEN above
        ELSE Outcome(NilErr, PutNode(above.tree, PathDir(path), Dir(BaseName(path), <<>>)), b)

\* DeleteDirectory with os.RemoveAll for every call
LocalDeleteDirectoryAlwaysAll(t, b, path, recursive) ==
    {Outcome(NilErr, RemoveNode(t, path), BytesWithout(b, path))}

\* LocalDriver.DeleteDirectory(path, recursive): os.RemoveAll or os.Remove
\* on disk (t, b).  What os.RemoveAll returns for a path below a file
\* depends on the Go release.
LocalDeleteDirectory(t, b, path, recursive) ==
    LET node == NodeAt(t, path)
        parent == NodeAt(t, PathDir(path))
        removed == Outcome(NilErr, RemoveNode(t, path), BytesWithout(b, path))
        failed == Outcome(Err("Could not delete directory"), t, b)
    IN  IF recursive
        THEN IF ~parent.found THEN {Outcome(NilErr, t, b)}
             ELSE IF ~parent.isDir THEN {Outcome(NilErr, t, b), failed}
             ELSE IF ~node.found THEN {Outcome(NilErr, t, b)}
             ELSE {removed}
        ELSE IF ~parent.found THEN {Outcome(ErrFileNotExists(path), t, b)}
             ELSE IF ~parent.isDir THEN {failed}
             ELSE IF ~node.found THEN {Outcome(ErrFileNotExists(path), t, b)}
             ELSE IF node.isDir /\ node.sub # <<>> THEN {Outcome(ErrNotEmpty, t, b)}
             ELSE {removed}

\* the paths handed to the calls on the disk
DiskPaths == Paths \ {<<>>}

\* the lists of lines handed to WriteLines: no line holds a CR or an LF
DiskLines == {<<>>, <<<<>>>>, <<<<"x">>>>, <<<<"x">>, <<>>>>, <<<<>>, <<"y">>>>}

\* the contents handed to WriteBytes
DiskContents == {<<>>, <<"x">>, <<"x", "\r", "\n">>}

\* the environment of a facade call whose driver calls have outcomes outs:
\* the first call with an error fails, and an open file holds data
DiskRun(outs, data) ==
    LET failing == {i \in DOMAIN outs : outs[i].err # NilErr}
    IN  Run(<<>>, IF failing = {} THEN 0 ELSE CHOOSE i \in failing : \A k \in failing : i <= k,
            FALSE, data)

\* a facade call on the disk returned: what its caller sees, and the disk
\* after the driver calls that were made (outs[n] is the outcome of the
\* n-th driver call) and after the bytes the call wrote or copied to the
\* file it opened for writing, the one at path into
DiskInvoke(op, args, st, outs, into) ==
    \E r \in {st}, os \in {outs} :
        LET n == Len(r.calls)
            after == IF n = 0 THEN Outcome(NilErr, tree, bytes) ELSE os[n]
            e == IF r.err.kind = "DriverError" THEN os[r.err.id].err ELSE r.err
            writes == {i \in DOMAIN r.io : r.io[i][1] \in {"Write", "Copy"}}
        IN  /\ calls' = r.calls
            /\ last' = [ op |-> op, args |-> args, err |-> e, val |-> r.val,
                         io |-> r.io, handles |-> r.handles ]
            /\ phase' = "called"
            /\ tree' = after.tree
            /\ bytes' = IF r.err = NilErr /\ writes # {}
                        THEN [after.bytes EXCEPT
                                ![into] = r.io[CHOOSE i \in writes : TRUE][2]]
                        ELSE after.bytes
            /\ UNCHANGED <<ctor, driverArg, fs, flags0, walkArgs, stack, ret, events>>

\* the facade is in the hands of its caller
InHand == phase \in {"ready", "called"}

\* a file, or nothing, is at path p: the files the reading calls are given
NoDirectory(p) == ~NodeAt(tree, p).found \/ ~NodeAt(tree, p).isDir

DiskWriteBytes ==
    /\ InHand
    /\ \E p \in DiskPaths, c \in DiskContents :
        LET o == LocalOpenFile(tree, bytes, p, Truncate(Create(OpenReadWrite)))
        IN  DiskInvoke("WriteBytes", <<p, c>>,
                       WriteBytes(fs, p, c, DiskRun(<<o>>, <<>>)), <<o>>, p)

DiskWriteLines ==
    /\ InHand
    /\ \E p \in DiskPaths, lines \in DiskLines :
        LET o == LocalOpenFile(tree, bytes, p, Truncate(Create(OpenReadWrite)))
        IN  DiskInvoke("WriteLines", <<p, lines>>,
                       WriteLines(fs, p, lines, DiskRun(<<o>>, <<>>)), <<o>>, p)

DiskReadBytes ==
    /\ InHand
    /\ \E p \in DiskPaths :
        /\ NoDirectory(p)
        /\ LET o == LocalOpenFile(tree, bytes, p, OpenReadOnly)
           IN  DiskInvoke("ReadBytes", <<p>>,
                          ReadBytes(fs, p, DiskRun(<<o>>, bytes[p])), <<o>>, p)

DiskReadLines ==
    /\ InHand
    /\ \E p \in DiskPaths :
        /\ NoDirectory(p)
        /\ LET o == LocalOpenFile(tree, bytes, p, OpenReadOnly)
           IN  DiskInvoke("ReadLines", <<p>>,
                          ReadLines(fs, p, DiskRun(<<o>>, bytes[p])), <<o>>, p)

\* the two driver calls of CopyFile(src, dst): the file that is read holds,
\* when it is copied, what the second call left in it
CopyOutcomes(src, dst) ==
    LET o1 == LocalOpenFile(tree, bytes, src, OpenReadOnly)
        o2 == LocalOpenFile(o1.tree, o1.bytes, dst, Truncate(Create(OpenReadWrite)))
    IN  <<o1, o2>>

DiskCopyFile ==
    /\ InHand
    /\ \E src \in DiskPaths, dst \in DiskPaths :
        /\ NoDirectory(src)
        /\ LET outs == CopyOutcomes(src, dst)
           IN  DiskInvoke("CopyFile", <<src, dst>>,
                          CopyFile(fs, src, dst, DiskRun(outs, outs[2].bytes[src])),
                          outs, dst)

\* Copy(src, dst) of a file: IsFile(src) is its first driver call
DiskCopy ==
    /\ InHand
    /\ \E src \in DiskPaths, dst \in DiskPaths :
        /\ NodeAt(tree, src).found /\ ~NodeAt(tree, src).isDir
        /\ LET outs == <<Outcome(NilErr, tree, bytes)>> \o CopyOutcomes(src, dst)
           IN  DiskInvoke("Copy", <<src, dst>>,
                          Copy(fs, src, dst, DiskRun(outs, outs[3].bytes[src])),
                          outs, dst)

DiskCreateDirectory ==
    /\ InHand
    /\ \E p \in DiskPaths :
        LET o == LocalCreateDirectory(tree, bytes, p)
        IN  DiskInvoke("CreateDirectory", <<p>>,
                       CreateDirectory(fs, p, DiskRun(<<o>>, <<>>)), <<o>>, p)

DiskDeleteDirectory ==
    /\ InHand
    /\ \E p \in DiskPaths, recursive \in BOOLEAN :
        \E o \in LocalDeleteDirectory(tree, bytes, p, recursive) :
            DiskInvoke("DeleteDirectory", <<p, recursive>>,
                       DeleteDirectory(fs, p, recursive, DiskRun(<<o>>, <<>>)),
                       <<o>>, p)

\* LocalDriver.ReadDir(path): ioutil.ReadDir on disk (t, b)
LocalReadDir(t, b, path) ==
    LET node == NodeAt(t, path)
    IN  IF ~node.found THEN Outcome(Err("Directory not found"), t, b)
        ELSE IF ~node.isDir THEN Outcome(Err("Failed to list directory content"), t, b)
        ELSE Outcome(NilErr, t, b)

\* LocalDriver.DeleteFile(path): os.Remove on disk (t, b), which removes a
\* file or an empty directory
LocalDeleteFile(t, b, path) ==
    LET node == NodeAt(t, path)
        parent == NodeAt(t, PathDir(path))
    IN  IF ~parent.found THEN Outcome(ErrFileNotExists(path), t, b)
        ELSE IF ~parent.isDir THEN Outcome(Err("Could not delete file"), t, b)
        ELSE IF ~node.found THEN Outcome(ErrFileNotExists(path), t, b)
        ELSE IF node.isDir /\ node.sub # <<>>
        THEN Outcome(Err("Could not delete file"), t, b)
        ELSE Outcome(NilErr, RemoveNode(t, path), BytesWithout(b, path))

\* the driver calls CleanDir(dir) makes for files[i..] on disk (t, b), one
\* after the other
RECURSIVE CleanOutcomes(_, _, _, _, _)
CleanOutcomes(t, b, dir, files, i) ==
    IF i > Len(files) THEN <<>>
    ELSE LET p == PathJoin(dir, files[i].name)
             o == IF files[i].isDir
                  THEN CHOOSE x \in LocalDeleteDirectory(t, b, p, TRUE) : TRUE
                  ELSE LocalDeleteFile(t, b, p)
         IN  <<o>> \o CleanOutcomes(o.tree, o.bytes, dir, files, i + 1)

DiskCleanDir ==
    /\ InHand
    /\ \E dir \in Paths :
        LET o == LocalReadDir(tree, bytes, dir)
            outs == IF o.err # NilErr THEN <<o>>
                    ELSE <<o>> \o CleanOutcomes(tree, bytes, dir,
                                                ListingOf(NodeAt(tree, dir).sub), 1)
        IN  DiskInvoke("CleanDir", <<dir>>,
                       CleanDir(fs, dir, DiskRun(outs, <<>>)), outs, dir)

DiskNext ==
    \/ DiskWriteBytes
    \/ DiskWriteLines
    \/ DiskReadBytes
    \/ DiskReadLines
    \/ DiskCopyFile
    \/ DiskCopy
    \/ DiskCreateDirectory
    \/ DiskDeleteDirectory
    \/ DiskCleanDir

\* New() on an empty disk
DiskInit ==
    /\ phase = "ready"
    /\ ctor = "New"
    /\ driverArg = LocalDriver
    /\ fs = NewWithDriverResult(LocalDriver)
    /\ flags0 = FlagsOf(fs)
    /\ tree = <<>>
    /\ bytes = NoContent
    /\ calls = <<>>
    /\ last = NoCall
    /\ walkArgs = NoWalk
    /\ stack = <<>>
    /\ ret = NilErr
    /\ events = <<>>

DiskSpec == DiskInit /\ [][DiskNext]_vars

---------------------------------------------------------------------------
(* Claims about the facade on a disk.  A step of DiskSpec is one call: last *)
(* is the call before it and last' the call itself.                        *)

\* the lines with the separator "\n" before each of them
RECURSIVE EachAfterSeparator(_)
EachAfterSeparator(lines) ==
    IF lines = <<>> THEN <<>>
    ELSE <<"\n">> \o Head(lines) \o EachAfterSeparator(Tail(lines))

\* the call returned nil
Succeeded(call, op) == call.op = op /\ call.err = NilErr

\* what the step of a WriteLines(p, lines) that works leaves in the file
\* at p, and what a ReadLines(p) right after a WriteLines(p, lines) that
\* worked returns, for the lists of lines the claim is made for
WriteLinesThenReadLines(lists) ==
    /\ Succeeded(last', "WriteLines") /\ last'.args[2] \in lists =>
        bytes'[last'.args[1]] =
            IF last'.args[2] = <<>> THEN <<>>
            ELSE Head(last'.args[2]) \o EachAfterSeparator(Tail(last'.args[2]))
    /\ /\ Succeeded(last, "WriteLines") /\ last.args[2] \in lists
       /\ last'.op = "ReadLines" /\ last'.args[1] = last.args[1]
       => last'.err = NilErr /\ last'.val = last.args[2]

\* C17 as stated: for every list of lines without CR and LF, WriteLines
\* writes the lines joined by "\n" with no separator after the last, and a
\* ReadLines that follows returns the list that was written.
C17_RoundTripOfEveryList == [][WriteLinesThenReadLines(DiskLines)]_vars

\* C17: for every list of at least one line without CR and LF, WriteLines
\* writes the lines joined by "\n" with no separator after the last, and a
\* ReadLines that follows returns the list that was written.
C17_RoundTripOfNonEmptyList == [][WriteLinesThenReadLines(DiskLines \ {<<>>})]_vars

\* ReadLines returned two lines, the second one empty, from a file that
\* WriteLines wrote
C17_Witness ==
    /\ Succeeded(last, "ReadLines")
    /\ last.val = <<<<"x">>, <<>>>>
    /\ bytes[last.args[1]] = <<"x", "\n">>

\* a file is at path p
FileAt(t, p) == NodeAt(t, p).found /\ ~NodeAt(t, p).isDir

\* C19: a CopyFile(A, B) or Copy(A, B) that works right after a
\* WriteBytes(A, C) that worked leaves files at A and B that both hold C,
\* and a ReadBytes(p) that works returns what the file at p holds.
C19_CopyKeepsContent ==
    [][ /\ /\ Succeeded(last, "WriteBytes")
           /\ last'.op \in {"CopyFile", "Copy"} /\ last'.err = NilErr
           /\ last'.args[1] = last.args[1]
           => /\ FileAt(tree', last'.args[1]) /\ FileAt(tree', last'.args[2])
              /\ bytes'[last'.args[1]] = last.args[2]
              /\ bytes'[last'.args[2]] = last.args[2]
        /\ Succeeded(last', "ReadBytes") => last'.val = bytes[last'.args[1]]
      ]_vars

\* a directory with an entry is at path p
NonEmptyDirAt(t, p) ==
    NodeAt(t, p).found /\ NodeAt(t, p).isDir /\ NodeAt(t, p).sub # <<>>

\* C20: DeleteDirectory(p, false) on a directory with an entry returns
\* ErrNotEmpty and changes nothing on the disk; DeleteDirectory(p, true) on
\* it returns nil, and nothing is at p afterwards.
C20_DeleteNonEmptyDirectory ==
    [][ last'.op = "DeleteDirectory" /\ NonEmptyDirAt(tree, last'.args[1]) =>
            IF last'.args[2]
            THEN last'.err = NilErr /\ ~NodeAt(tree', last'.args[1]).found
            ELSE last'.err = ErrNotEmpty /\ tree' = tree /\ bytes' = bytes
      ]_vars

\* the delete without recursive was refused for a directory that holds a
\* file with content
C20_Witness ==
    /\ last.op = "DeleteDirectory"
    /\ last.args = <<<<"a">>, FALSE>>
    /\ last.err = ErrNotEmpty
    /\ FileAt(tree, <<"a", "b">>)
    /\ bytes[<<"a", "b">>] # <<>>

---------------------------------------------------------------------------
(* Claims about the composite calls of the facade, on their driver calls.  *)

\* a call of Copy or Move on a facade that can write has returned
Dispatched == phase = "called" /\ last.op \in {"Copy", "Move"} /\ fs.canWrite

\* driver call n of the call was a call of method for path p
CallIs(n, method, p) ==
    n <= Len(calls) /\ calls[n].method = method /\ calls[n].args[1] = p

\* a driver call that changes the file system: a write, a create, a
\* delete or a move (an OpenFile for reading changes nothing)
Mutating(call) ==
    \/ call.method \in {"CreateDirectory", "DeleteFile", "DeleteDirectory",
                        "MoveFile", "MoveDir"}
    \/ call.method = "OpenFile" /\ call.args[2] # OpenReadOnly

NoMutation == \A n \in DOMAIN calls : ~Mutating(calls[n])

\* C21: Copy(src, dst) and Move(src, dst) on a facade that can write ask
\* IsFile(src) first; an error of it is returned and nothing else is done;
\* on true the file variant runs (MoveFile, or the open of src that CopyFile
\* starts with) and IsDir is not asked; otherwise IsDir(src) is asked, an
\* error of it is returned, on true the directory variant runs (MoveDir, or
\* the CreateDirectory(dst) that CopyDir starts with), and on false the
\* call returns ErrNotExists for src.  Without a variant run, no driver
\* call changed the file system.
C21_DispatchOnSourceType ==
    Dispatched =>
        LET src == last.args[1]
            dst == last.args[2]
            node == NodeAt(tree, src)
            move == last.op = "Move"
        IN  /\ CallIs(1, "IsFile", src)
            /\ IF last.err = DriverError("IsFile", 1)
               THEN Len(calls) = 1 /\ NoMutation
               ELSE IF node.found /\ ~node.isDir
               THEN /\ \A n \in DOMAIN calls :
                        calls[n].method \notin {"IsDir", "MoveDir", "CreateDirectory"}
                    /\ IF move THEN Len(calls) = 2 /\ calls[2].method = "MoveFile"
                                    /\ calls[2].args = <<src, dst>>
                       ELSE calls[2].method = "OpenFile"
                            /\ calls[2].args = <<src, OpenReadOnly>>
               ELSE /\ CallIs(2, "IsDir", src)
                    /\ IF last.err = DriverError("IsDir", 2)
                       THEN Len(calls) = 2 /\ NoMutation
                       ELSE IF node.found /\ node.isDir
                       THEN IF move THEN Len(calls) = 3 /\ calls[3].method = "MoveDir"
                                         /\ calls[3].args = <<src, dst>>
                            ELSE CallIs(3, "CreateDirectory", dst)
                       ELSE /\ last.err = ErrNotExists(src)
                            /\ Len(calls) = 2 /\ NoMutation

\* Move of something that is not there, and nothing was changed
C21_Witness ==
    /\ Dispatched
    /\ last.op = "Move"
    /\ ~NodeAt(tree, last.args[1]).found
    /\ last.err = ErrNotExists(last.args[1])
    /\ Len(calls) = 2

---------------------------------------------------------------------------
(* The temporary file and directory helpers on a disk.  GetTempFile and    *)
(* GetTempDir of the LocalDriver make the resource under a fresh name; the *)
(* callback runs while the helper is on the stack, and may fill the        *)
(* temporary directory; when it returns, the deferred os.Remove or         *)
(* os.RemoveAll runs, which the operating system may refuse, and its       *)
(* result is dropped.  events holds what the callback returned and what    *)
(* the removal returned.                                                   *)

TempHelpers == {"WithTempFile", "WithTempDir"}

TempHelper(op, cbFails, st) ==
    IF op = "WithTempFile" THEN WithTempFile(fs, "pattern", cbFails, st)
    ELSE WithTempDir(fs, "prefix", cbFails, st)

\* the io entries of a helper after its callback: the deferred calls
Deferred(io) ==
    SelectSeq(io, LAMBDA x : x[1] \in {"os.Remove", "os.RemoveAll"})

\* os.Remove(p) and os.RemoveAll(p) on the disk t
OsRemove(t, p, which, refused) ==
    LET node == NodeAt(t, p)
    IN  IF refused THEN Outcome(Err("remove"), t, bytes)
        ELSE IF ~node.found
        THEN Outcome(IF which = "os.Remove" THEN Err("remove") ELSE NilErr, t, bytes)
        ELSE IF which = "os.Remove" /\ node.isDir /\ node.sub # <<>>
        THEN Outcome(Err("remove"), t, bytes)
        ELSE Outcome(NilErr, RemoveNode(t, p), bytes)

\* the helper is called: it returns at once when it is not supported or
\* when the resource cannot be made, and else makes it and calls f
TempEnter ==
    /\ InHand
    /\ ~NodeAt(tree, TempPath).found
    /\ \E op \in TempHelpers, st \in Envs :
        \E r \in {TempHelper(op, FALSE, st)} :
            /\ calls' = r.calls
            /\ events' = <<>>
            /\ IF \E i \in DOMAIN r.io : r.io[i][1] = "callback"
               THEN /\ phase' = "callback"
                    /\ tree' = tree \o <<IF op = "WithTempFile" THEN File(TempPath[1])
                                         ELSE Dir(TempPath[1], <<>>)>>
                    /\ last' = [ op |-> op, args |-> <<>>, err |-> NilErr,
                                 val |-> TempPath, io |-> <<r.io[1]>>,
                                 handles |-> r.handles ]
               ELSE /\ phase' = "called"
                    /\ tree' = tree
                    /\ last' = [ op |-> op, args |-> <<>>, err |-> r.err,
                                 val |-> r.val, io |-> r.io, handles |-> r.handles ]
    /\ UNCHANGED <<ctor, driverArg, fs, flags0, bytes, walkArgs, stack, ret>>

\* the callback makes a file or a directory in the temporary directory
TempCallback ==
    /\ phase = "callback"
    /\ NodeAt(tree, TempPath).isDir
    /\ \E n \in Names, d \in BOOLEAN :
        tree' = PutNode(tree, TempPath, IF d THEN Dir(n, <<>>) ELSE File(n))
    /\ UNCHANGED <<phase, ctor, driverArg, fs, flags0, bytes, calls, last,
                   walkArgs, stack, ret, events>>

\* the callback returns, an error or nil; the deferred call runs and the
\* helper returns
TempReturn ==
    /\ phase = "callback"
    /\ \E cb \in BOOLEAN, refused \in BOOLEAN :
        \E r \in {TempHelper(last.op, cb, Run(<<>>, 0, FALSE, <<>>))} :
            LET e == IF cb THEN CallbackError(last.op, 1) ELSE NilErr
                d == Deferred(r.io)
                o == IF d = <<>> THEN Outcome(NilErr, tree, bytes)
                     ELSE OsRemove(tree, d[1][2], d[1][1], refused)
            IN  /\ tree' = o.tree
                /\ events' = <<[kind |-> "callback", err |-> e],
                               [kind |-> "remove", err |-> o.err]>>
                /\ last' = [ op |-> last.op, args |-> <<>>, err |-> r.err,
                             val |-> r.val, io |-> r.io, handles |-> r.handles ]
                /\ phase' = "called"
    /\ UNCHANGED <<ctor, driverArg, fs, flags0, bytes, calls, walkArgs, stack, ret>>

TempNext ==
    \/ TempEnter
    \/ TempCallback
    \/ TempReturn

\* a facade over the LocalDriver, or over a driver without temporary
\* resources, on a disk with at most one entry
TempInit ==
    /\ phase = "ready"
    /\ \/ ctor = "New" /\ driverArg = LocalDriver
       \/ ctor = "NewWithDriver" /\ driverArg = Value(ReadWriteFileSystemDriver)
    /\ fs = NewWithDriverResult(driverArg)
    /\ flags0 = FlagsOf(fs)
    /\ tree \in Listings(1)
    /\ bytes = NoContent
    /\ calls = <<>>
    /\ last = NoCall
    /\ walkArgs = NoWalk
    /\ stack = <<>>
    /\ ret = NilErr
    /\ events = <<>>

TempSpec == TempInit /\ [][TempNext]_vars

---------------------------------------------------------------------------
(* Claims about the temporary file and directory helpers.                  *)

\* the helper returned after it called f
TempReturned == phase = "called" /\ last.op \in TempHelpers /\ Len(events) = 2

\* the helper returned without calling f
TempNotCalled == phase = "called" /\ last.op \in TempHelpers /\ events = <<>>

TempResource == NodeAt(tree, TempPath)

\* what the helpers do apart from the removal: the resource is there while f
\* runs, the helper returns what f returned, and f is not called when the
\* facade has no temp driver or the driver cannot make the resource
TempScope ==
    /\ phase = "callback" =>
          /\ TempResource.found
          /\ TempResource.isDir = (last.op = "WithTempDir")
    /\ TempReturned => last.err = events[1].err
    /\ TempNotCalled =>
          /\ ~TempResource.found
          /\ IF ~fs.canTemp THEN last.err = ErrNotSupported(last.op) /\ calls = <<>>
             ELSE /\ Len(calls) = 1
                  /\ last.err = DriverError(calls[1].method, 1)

---------------------------------------------------------------------------
(* Claims about the handles the facade opens for itself.                   *)

\* the facade methods that open a file and do not hand it to their caller
HandleOps ==
    { "ReadBytes", "ReadString", "ReadLines", "WriteBytes", "WriteString",
      "WriteLines", "CopyFile", "CopyDir", "CopyAll", "Copy" }

\* the OpenFile calls of the driver that returned a handle
Opened ==
    {n \in DOMAIN calls :
        calls[n].method = "OpenFile" /\ last.err # DriverError("OpenFile", n)}

\* the Close calls on handles
Closed == {i \in DOMAIN last.io : last.io[i] = <<"Close">>}

---------------------------------------------------------------------------
(* Claims about the errors of the driver in the composite calls.           *)

\* the facade methods that work through the entries of a directory
LoopOps == {"CopyDir", "CopyAll", "MoveAll", "CleanDir"}

\* the driver calls that returned an error
FailedCalls == {n \in DOMAIN calls : calls[n].err # NilErr}

---------------------------------------------------------------------------
(* Claims about CleanDir on a disk.                                        *)

\* p is neither dir nor below it
Outside(dir, p) == ~IsPrefix(dir, p)

---------------------------------------------------------------------------
(* Package path.  A path is a string, a sequence of characters; the        *)
(* separator is "/".  Clean, IsAbs and Join are the functions of           *)
(* path/filepath they call.                                                *)

\* the largest number of characters of a path handed to IsIn and AbsRoot
MaxPathLen == 3

PathChars == {"/", "a", "."}

PathStrings == UNION {[1..k -> PathChars] : k \in 0..MaxPathLen}

\* path.Err.Msg(msg).Make()
PathErr(msg) == [kind |-> "path.Err", arg |-> msg, id |-> 0, path |-> <<>>]

IsAbs(path) == Len(path) > 0 /\ path[1] = "/"

\* the loop of filepath.Clean over the elements of the path: empty
\* elements and "." are dropped, ".." takes the element before it away
\* when there is one, and stays at the front of a relative path
RECURSIVE CleanLoop(_, _, _, _)
CleanLoop(elems, i, out, rooted) ==
    IF i > Len(elems) THEN out
    ELSE IF elems[i] = <<>> \/ elems[i] = <<".">>
    THEN CleanLoop(elems, i + 1, out, rooted)
    ELSE IF elems[i] = <<".", ".">>
    THEN IF out # <<>> /\ out[Len(out)] # <<".", ".">>
         THEN CleanLoop(elems, i + 1, SubSeq(out, 1, Len(out) - 1), rooted)
         ELSE IF rooted THEN CleanLoop(elems, i + 1, out, rooted)
         ELSE CleanLoop(elems, i + 1, Append(out, elems[i]), rooted)
    ELSE CleanLoop(elems, i + 1, Append(out, elems[i]), rooted)

\* the elements of the cleaned path
CleanParts(path) == CleanLoop(Split(path, <<"/">>), 1, <<>>, IsAbs(path))

Clean(path) ==
    IF path = <<>> THEN <<".">>
    ELSE IF IsAbs(path) THEN <<"/">> \o StringsJoin(CleanParts(path), <<"/">>)
    ELSE IF CleanParts(path) = <<>> THEN <<".">>
    ELSE StringsJoin(CleanParts(path), <<"/">>)

\* Join(a, b) of two parts
Join(a, b) ==
    IF a # <<>> THEN Clean(a \o <<"/">> \o b)
    ELSE IF b # <<>> THEN Clean(b)
    ELSE <<>>

IsIn(path, expectedParent) ==
    IF ~IsAbs(path)
    THEN [err |-> PathErr("path must denote an absolute path"), val |-> FALSE]
    ELSE IF ~IsAbs(expectedParent)
    THEN [err |-> PathErr("expectedParent must denote an absolute path"), val |-> FALSE]
    ELSE LET parts == Split(Clean(path), <<"/">>)
             expectedParts == Split(Clean(expectedParent), <<"/">>)
         IN  IF Len(parts) < Len(expectedParts) THEN [err |-> NilErr, val |-> FALSE]
             ELSE [ err |-> NilErr,
                    val |-> \A i \in DOMAIN expectedParts : parts[i] = expectedParts[i] ]

AbsRoot(root, path) ==
    IF ~IsAbs(root)
    THEN [err |-> PathErr("The root directory must be an absolute path"), val |-> <<>>]
    ELSE LET abs1 == Clean(Join(root, Clean(path)))
             abs2 == Clean(Join(root, Clean(<<"/">> \o path)))
         IN  IF IsIn(abs1, root).val THEN [err |-> NilErr, val |-> abs1]
             ELSE IF IsIn(abs2, root).val THEN [err |-> NilErr, val |-> abs2]
             ELSE [err |-> PathErr(""), val |-> <<>>]

\* the two arguments of IsIn or of AbsRoot
PathInit ==
    /\ phase = "ready"
    /\ ctor = "New"
    /\ driverArg = LocalDriver
    /\ fs = NewWithDriverResult(LocalDriver)
    /\ flags0 = FlagsOf(fs)
    /\ tree = <<>>
    /\ bytes = NoContent
    /\ calls = <<>>
    /\ walkArgs = NoWalk
    /\ stack = <<>>
    /\ ret = NilErr
    /\ events = <<>>
    /\ \E op \in {"IsIn", "AbsRoot"}, p \in PathStrings, q \in PathStrings :
          last = [NoCall EXCEPT !.op = op, !.args = <<p, q>>]

\* IsIn(path, expectedParent)
ApplyIsIn ==
    /\ phase = "ready"
    /\ last.op = "IsIn"
    /\ \E r \in {IsIn(last.args[1], last.args[2])} :
          last' = [last EXCEPT !.err = r.err, !.val = r.val]
    /\ phase' = "called"
    /\ UNCHANGED <<ctor, driverArg, fs, flags0, tree, bytes, calls, walkArgs, stack, ret, events>>

\* AbsRoot(root, path)
ApplyAbsRoot ==
    /\ phase = "ready"
    /\ last.op = "AbsRoot"
    /\ \E r \in {AbsRoot(last.args[1], last.args[2])} :
          last' = [last EXCEPT !.err = r.err, !.val = r.val]
    /\ phase' = "called"
    /\ UNCHANGED <<ctor, driverArg, fs, flags0, tree, bytes, calls, walkArgs, stack, ret, events>>

PathNext == ApplyIsIn \/ ApplyAbsRoot

PathSpec == PathInit /\ [][PathNext]_vars

---------------------------------------------------------------------------
(* Claims about package path.                                              *)

\* C26: for absolute arguments IsIn(path, expectedParent) returns true
\* exactly when the elements of the cleaned expectedParent are a prefix of
\* the elements of the cleaned path, so that every absolute path is in "/"
\* and "/a" is not in "/aa"; when one argument is not absolute it returns a
\* path error.
C26_IsInIsPrefixOfElements ==
    (phase = "called" /\ last.op = "IsIn") =>
        IF IsAbs(last.args[1]) /\ IsAbs(last.args[2])
        THEN /\ last.err = NilErr
             /\ last.val = IsPrefix(CleanParts(last.args[2]), CleanParts(last.args[1]))
        ELSE last.err.kind = "path.Err"

---------------------------------------------------------------------------
(* Termination of Walk.  The statements of walk run one after the other    *)
(* until Walk returns: a step of the walker that can be taken is taken.    *)
(* The caller is free to call Walk, or to go on after it, or not.          *)

WalkStep == WalkReadDir \/ WalkVisit \/ WalkEnter \/ WalkLeave

FairWalkSpec == WalkSpec /\ WF_vars(WalkStep)

\* the entries of listing l of directory dir and of the directories below
RECURSIVE EntriesBelow(_, _)
EntriesBelow(dir, l) ==
    UNION { {[dir |-> dir, name |-> l[i].name, isDir |-> l[i].isDir]}
                \cup (IF l[i].isDir THEN EntriesBelow(dir \o <<l[i].name>>, l[i].sub)
                      ELSE {}) : i \in DOMAIN l }

\* the directories ReadDir is called for: the root and those below it
DirsToRead ==
    {<<>>} \cup {e.dir \o <<e.name>> : e \in {x \in EntriesBelow(<<>>, tree) : x.isDir}}

EventsOf(kind) == {i \in DOMAIN events : events[i].kind = kind}

\* a Walk with a visit handler and SkipSubDirs unset returned, and no
\* callback failed or set the skip flag, and no ReadDir failed
FullWalkDone ==
    WalkDone /\ walkArgs.visit /\ ~walkArgs.SkipSubDirs /\ NoSkip /\ NoError

\* what a full walk has done when it returned
FullWalkCounts ==
    FullWalkDone =>
        /\ last.err = NilErr
        /\ \A d \in DirsToRead :
              Cardinality({i \in EventsOf("ReadDir") : events[i].dir = d}) = 1
        /\ Cardinality(EventsOf("ReadDir")) = Cardinality(DirsToRead)
        /\ \A e \in EntriesBelow(<<>>, tree) :
              Cardinality({i \in EventsOf("visit") :
                              /\ events[i].dir = e.dir
                              /\ events[i].name = e.name
                              /\ events[i].isDir = e.isDir}) = 1
        /\ Cardinality(EventsOf("visit")) = Cardinality(EntriesBelow(<<>>, tree))
        /\ \A i, j \in EventsOf("visit") :
              IsPrefix(events[i].dir \o <<events[i].name>>, events[j].dir) => i < j

\* C27: on every tree a Walk that was started returns; with a visit
\* handler, SkipSubDirs unset, no failing callback, no skip and no failing
\* ReadDir it returns nil, has called ReadDir once for the root and once
\* for every directory below it, and has called the visit handler once for
\* every file and every directory below the root, for a directory before
\* any entry inside it.
C27_WalkTerminates ==
    /\ []FullWalkCounts
    /\ (phase = "walking") ~> (phase # "walking")

\* a full walk returned nil from a tree with a file in a directory in a
\* directory: three directories read, three entries visited
C27_Witness ==
    /\ FullWalkDone
    /\ last.err = NilErr
    /\ \E e \in EntriesBelow(<<>>, tree) : Len(e.dir) = 2 /\ ~e.isDir
    /\ Cardinality(EventsOf("ReadDir")) = 3
    /\ Cardinality(EventsOf("visit")) = 3

---------------------------------------------------------------------------
(* CopyDir on a disk, statement by statement.  Each activation of the      *)
(* recursive CopyDir is a frame: its src and dst, the listing ReadDir      *)
(* returned, the index of the entry in work and the place in the body      *)
(* ("CreateDirectory", "ReadDir", "loop", and "returned": the recursive    *)
(* call came back with ret).  events holds the disk at the start of the    *)
(* call.                                                                   *)

\* the largest number of nested activations of CopyDir that is followed:
\* more than a copy of a tree of MaxListed entries, started on such a disk,
\* can need
MaxCopyDepth == MaxListed + 3

CopyFrame(src, dst) ==
    [src |-> src, dst |-> dst, files |-> <<>>, i |-> 0, at |-> "CreateDirectory"]

\* the bytes of the file at path p, and the bytes b with c in that file
HeldAt(b, p) == IF p \in DOMAIN b THEN b[p] ELSE <<>>

Holding(b, p, c) ==
    [q \in DOMAIN b \cup {p} |-> IF q = p THEN c ELSE b[q]]

\* a listing as ioutil.ReadDir returns it: sorted by name, at every level
RECURSIVE SortedTree(_)
SortedTree(l) ==
    /\ \A i, j \in DOMAIN l : i < j => OrderLexicographicAsc(l[i], l[j]) < 0
    /\ \A i \in DOMAIN l : SortedTree(l[i].sub)

\* the top activation returns e: to the activation that called it, or, from
\* the outermost one, to the caller of CopyDir
CopyReturn(e) ==
    /\ ret' = e
    /\ IF Len(stack) = 1
       THEN /\ stack' = <<>>
            /\ last' = [last EXCEPT !.err = e]
            /\ phase' = "called"
       ELSE /\ stack' = [SubSeq(stack, 1, Len(stack) - 1)
                            EXCEPT ![Len(stack) - 1].at = "returned"]
            /\ UNCHANGED <<last, phase>>

CopyGoto(frame) ==
    /\ stack' = [stack EXCEPT ![Len(stack)] = frame]
    /\ UNCHANGED <<ret, last, phase>>

\* CopyDir(src, dst) is called, once
CopyDirCall ==
    /\ phase = "ready"
    /\ \E src \in DiskPaths, dst \in DiskPaths :
        /\ last' = [NoCall EXCEPT !.op = "CopyDir", !.args = <<src, dst>>,
                                  !.err = IF fs.canWrite THEN NilErr
                                          ELSE ErrNotSupported("CopyDir")]
        /\ phase' = IF fs.canWrite THEN "copying" ELSE "called"
        /\ stack' = IF fs.canWrite THEN <<CopyFrame(src, dst)>> ELSE <<>>
    /\ events' = <<[kind |-> "start", tree |-> tree, bytes |-> bytes]>>
    /\ ret' = NilErr
    /\ UNCHANGED <<ctor, driverArg, fs, flags0, tree, bytes, calls, walkArgs>>

\* fs.rwDriver.CreateDirectory(dst)
CopyDirCreateDirectory ==
    /\ phase = "copying"
    /\ Top.at = "CreateDirectory"
    /\ \E o \in {LocalCreateDirectory(tree, bytes, Top.dst)} :
        /\ tree' = o.tree
        /\ bytes' = o.bytes
        /\ IF o.err # NilErr THEN CopyReturn(o.err)
           ELSE CopyGoto([Top EXCEPT !.at = "ReadDir"])
    /\ UNCHANGED <<ctor, driverArg, fs, flags0, calls, walkArgs, events>>

\* files, err := fs.rDriver.ReadDir(src)
CopyDirReadDir ==
    /\ phase = "copying"
    /\ Top.at = "ReadDir"
    /\ \E o \in {LocalReadDir(tree, bytes, Top.src)} :
        IF o.err # NilErr THEN CopyReturn(o.err)
        ELSE CopyGoto([Top EXCEPT !.files = ListingOf(NodeAt(tree, Top.src).sub),
                                  !.i = 1, !.at = "loop"])
    /\ UNCHANGED <<ctor, driverArg, fs, flags0, tree, bytes, calls, walkArgs, events>>

\* the loop is over: return nil
CopyDirLoopEnd ==
    /\ phase = "copying"
    /\ Top.at = "loop"
    /\ Top.i > Len(Top.files)
    /\ CopyReturn(NilErr)
    /\ UNCHANGED <<ctor, driverArg, fs, flags0, tree, bytes, calls, walkArgs, events>>

\* the entry is a directory: fs.CopyDir(path.Join(src, f.Name()),
\* path.Join(dst, f.Name()))
CopyDirRecurse ==
    /\ phase = "copying"
    /\ Top.at = "loop"
    /\ Top.i <= Len(Top.files)
    /\ Top.files[Top.i].isDir
    /\ Len(stack) < MaxCopyDepth
    /\ stack' = Append(stack, CopyFrame(PathJoin(Top.src, Top.files[Top.i].name),
                                        PathJoin(Top.dst, Top.files[Top.i].name)))
    /\ UNCHANGED <<phase, ctor, driverArg, fs, flags0, tree, bytes, calls, last,
                   walkArgs, ret, events>>

\* CopyFile(src, dst) once the source is open (reader) on the LocalDriver:
\* the destination is created or truncated with the flags of fs.CreateFile
LocalCopyFileCreate(reader, dst, createFlags) ==
    IF reader.err # NilErr THEN reader
    ELSE LocalOpenFile(reader.tree, reader.bytes, dst, createFlags)

\* io.Copy(fDst, fSrc): what the source holds once the destination is open
\* (writer) becomes the content of the destination
LocalCopyFileCopy(writer, src, dst) ==
    IF writer.err # NilErr THEN writer
    ELSE Outcome(NilErr, writer.tree,
                 Holding(writer.bytes, dst, HeldAt(writer.bytes, src)))

\* the entry is a file: fs.CopyFile(path.Join(src, f.Name()),
\* path.Join(dst, f.Name())), the source opened with fs.Open
CopyDirCopyFile ==
    /\ phase = "copying"
    /\ Top.at = "loop"
    /\ Top.i <= Len(Top.files)
    /\ ~Top.files[Top.i].isDir
    /\ \E from \in {PathJoin(Top.src, Top.files[Top.i].name)},
          to \in {PathJoin(Top.dst, Top.files[Top.i].name)},
          flags \in {Truncate(Create(OpenReadWrite))} :
        \E reader \in {LocalOpenFile(tree, bytes, from, OpenReadOnly)} :
        \E writer \in {LocalCopyFileCreate(reader, to, flags)} :
        \E o \in {LocalCopyFileCopy(writer, from, to)} :
            /\ tree' = o.tree
            /\ bytes' = o.bytes
            /\ IF o.err # NilErr THEN CopyReturn(o.err)
               ELSE CopyGoto([Top EXCEPT !.i = @ + 1])
    /\ UNCHANGED <<ctor, driverArg, fs, flags0, calls, walkArgs, events>>

\* the recursive call came back
CopyDirReturned ==
    /\ phase = "copying"
    /\ Top.at = "returned"
    /\ IF ret # NilErr THEN CopyReturn(ret)
       ELSE CopyGoto([Top EXCEPT !.i = @ + 1, !.at = "loop"])
    /\ UNCHANGED <<ctor, driverArg, fs, flags0, tree, bytes, calls, walkArgs, events>>

CopyStep ==
    \/ CopyDirCreateDirectory
    \/ CopyDirReadDir
    \/ CopyDirLoopEnd
    \/ CopyDirRecurse
    \/ CopyDirCopyFile
    \/ CopyDirReturned

CopyNext == CopyDirCall \/ CopyStep

\* New() on a disk of at most MaxListed entries, every file holding "x"
CopyInit ==
    /\ phase = "ready"
    /\ ctor = "New"
    /\ driverArg = LocalDriver
    /\ fs = NewWithDriverResult(LocalDriver)
    /\ flags0 = FlagsOf(fs)
    /\ tree \in {l \in Listings(MaxListed) : SortedTree(l)}
    /\ bytes = [p \in Paths |-> IF FileAt(tree, p) THEN <<"x">> ELSE <<>>]
    /\ calls = <<>>
    /\ last = NoCall
    /\ walkArgs = NoWalk
    /\ stack = <<>>
    /\ ret = NilErr
    /\ events = <<>>

CopySpec == CopyInit /\ [][CopyNext]_vars

\* a running CopyDir goes on
FairCopySpec == CopySpec /\ WF_vars(CopyStep)

---------------------------------------------------------------------------
(* Claims about CopyDir on a disk.                                         *)

\* the disk when the CopyDir in work, or the one that returned, was called
AtStart == events[1]

\* the paths, below the directory at path dir on disk t, of its entries
RelativePaths(t, dir) ==
    {e.dir \o <<e.name>> : e \in EntriesBelow(<<>>, NodeAt(t, dir).sub)}

\* path p on disk (t2, b2) is what path q was on disk (t1, b1): a directory,
\* or a file with the same bytes
SameEntry(t1, b1, q, t2, b2, p) ==
    /\ NodeAt(t2, p).found
    /\ NodeAt(t2, p).isDir = NodeAt(t1, q).isDir
    /\ ~NodeAt(t1, q).isDir => HeldAt(b2, p) = HeldAt(b1, q)

\* a CopyDir(src, dst) that returned nil: every entry src held at the start
\* is in dst, and is still in src as it was
CopyDirCopied ==
    (phase = "called" /\ last.op = "CopyDir" /\ last.err = NilErr) =>
        \A rel \in RelativePaths(AtStart.tree, last.args[1]) :
            /\ SameEntry(AtStart.tree, AtStart.bytes, last.args[1] \o rel,
                         tree, bytes, last.args[2] \o rel)
            /\ SameEntry(AtStart.tree, AtStart.bytes, last.args[1] \o rel,
                         tree, bytes, last.args[1] \o rel)

\* C28: for every tree and every src and dst, CopyDir(src, dst) returns,
\* nil or the first error; when it returned nil, dst holds every file, with
\* its content, and every directory that src held at the start, and src
\* still holds them unchanged.
C28_CopyDirTerminatesAndCopies ==
    /\ []CopyDirCopied
    /\ (phase = "copying") ~> (phase # "copying")


---------------------------------------------------------------------------
(* The comparers as orderings.  A comparer value is called on the pairs of *)
(* three entries; the entries carry a size, as every FileInfo does.        *)

\* the sizes of the entries handed to a comparer
Sizes == {0, 5}

\* a FileInfo with Name(), IsDir() and Size()
SizedInfo(name, isDir, size) == [name |-> name, isDir |-> isDir, size |-> size]

\* the entries handed to a comparer: the first three names, files and
\* directories, of every size
SizedInfos ==
    { SizedInfo(SortNames[i], d, s) : i \in 1..3, d \in BOOLEAN, s \in Sizes }

\* f with another size
Resized(f, size) == [f EXCEPT !.size = size]

\* the comparer values: the exported ones and the compounds of them
OrderComparers == Comparers \cup {NewCompoundComparer(cs) : cs \in ComparerLists}

\* a comparer, three entries of size 0, and other sizes for the first two
OrderInit ==
    /\ phase = "ready"
    /\ ctor = "NewWithDriver"
    /\ driverArg = Value(ReadFileSystemDriver)
    /\ fs = NewWithDriverResult(Value(ReadFileSystemDriver))
    /\ flags0 = FlagsOf(fs)
    /\ tree = <<File("a")>>
    /\ bytes = NoContent
    /\ calls = <<>>
    /\ walkArgs = NoWalk
    /\ stack = <<>>
    /\ ret = NilErr
    /\ events = <<>>
    /\ \E cmp \in OrderComparers, s1 \in Sizes, s2 \in Sizes :
       \E a \in SizedInfos, b \in SizedInfos, c \in SizedInfos :
            /\ a.size = 0 /\ b.size = 0 /\ c.size = 0
            /\ last = [NoCall EXCEPT !.op = "Compare",
                                     !.args = <<cmp, a, b, c, Resized(a, s1), Resized(b, s2)>>]

\* cmp(a, b), cmp(b, a), cmp(a, a), cmp(b, c), cmp(a, c), and cmp(a, b)
\* with the other sizes
ApplyCompare ==
    /\ phase = "ready"
    /\ last.op = "Compare"
    /\ LET cmp == last.args[1]
           a == last.args[2]
           b == last.args[3]
           c == last.args[4]
       IN  last' = [last EXCEPT !.val =
                        [ ab |-> Compare(cmp, a, b),
                          ba |-> Compare(cmp, b, a),
                          aa |-> Compare(cmp, a, a),
                          bc |-> Compare(cmp, b, c),
                          ac |-> Compare(cmp, a, c),
                          resized |-> Compare(cmp, last.args[5], last.args[6]) ]]
    /\ phase' = "called"
    /\ UNCHANGED <<ctor, driverArg, fs, flags0, tree, bytes, calls, walkArgs, stack, ret, events>>

OrderNext == ApplyCompare

OrderSpec == OrderInit /\ [][OrderNext]_vars

\* the sign of an int
Sign(n) == IF n < 0 THEN -1 ELSE IF n > 0 THEN 1 ELSE 0

Compared == phase = "called" /\ last.op = "Compare"

\* C29: every exported comparer and every compound of them is a consistent
\* three-way ordering: for all entries a, b, c the sign of cmp(a, b) is the
\* opposite of the sign of cmp(b, a), cmp(a, a) is 0, cmp(a, b) < 0 and
\* cmp(b, c) < 0 give cmp(a, c) < 0, and cmp(a, b) is the same whatever the
\* sizes of a and b are.
C29_ComparersAreOrderings ==
    Compared =>
        /\ Sign(last.val.ab) = -Sign(last.val.ba)
        /\ last.val.aa = 0
        /\ (last.val.ab < 0 /\ last.val.bc < 0 => last.val.ac < 0)
        /\ last.val.resized = last.val.ab

\* a compound of two comparers ordered a before b before c, where the first
\* comparer alone does not order a and b, and the sizes were changed
C29_Witness ==
    /\ Compared
    /\ last.args[1].kind = "Compound"
    /\ Len(last.args[1].parts) = 2
    /\ Compare(Head(last.args[1].parts), last.args[2], last.args[3]) = 0
    /\ last.val.ab < 0
    /\ last.val.bc < 0
    /\ last.val.ac < 0
    /\ last.args[5].size # last.args[2].size
    /\ last.args[6].size # last.args[3].size


---------------------------------------------------------------------------
(* Package interop: moving between two facades.  The driver calls of a     *)
(* run are made through the source facade or through the destination      *)
(* facade; each call of the log says through which (on).                   *)

\* st, and then what Rest makes of it: the statements after an assignment
Then(st, Rest(_)) == CHOOSE r \in {Rest(s) : s \in {st}} : TRUE

\* the calls a facade method added to the log are calls on facade which
OnFacade(which, before, after) ==
    Then(after, LAMBDA a :
        [a EXCEPT !.calls =
            [i \in 1..Len(a.calls) |->
                IF i <= Len(before.calls) THEN a.calls[i]
                ELSE [ method |-> a.calls[i].method, args |-> a.calls[i].args,
                       err |-> a.calls[i].err, on |-> which ]]])

\* the copy of a move came back: its error, and the calls made until then
CopyDone(st) ==
    Then(st, LAMBDA s : [s EXCEPT !.io = Append(@, <<"copy step", s.err, Len(s.calls)>>)])

SrcNotWritable == ErrNotSupported("Source file system does not support writing")
DstNotWritable == ErrNotSupported("Destination file system does not support writing")
SrcNotReadable == ErrNotSupported("Source file system does not support reading")

\* copyFile of package interop
copyFile(fsSrc, src, fsDst, dst, st) ==
    Then(OnFacade("src", st, Open(fsSrc, src, st)), LAMBDA s1 :
        IF s1.err # NilErr THEN s1
        ELSE Then(OnFacade("dst", s1, CreateFile(fsDst, dst, s1)), LAMBDA s2 :
            IF s2.err # NilErr THEN Close(s2)
            ELSE Then([s2 EXCEPT !.io = Append(@, <<"Copy", s2.data>>)], LAMBDA s3 :
                IF s3.ioFail
                THEN Close(Close(Fail(s3, Err("Failed to copy data"))))
                ELSE Close(Close(Return(s3, <<>>))))))

\* interop.CopyFile
InteropCopyFile(fsSrc, src, fsDst, dst, st) ==
    IF ~CanRead(fsSrc) THEN Fail(st, SrcNotReadable)
    ELSE IF ~CanWrite(fsDst) THEN Fail(st, DstNotWritable)
    ELSE copyFile(fsSrc, src, fsDst, dst, st)

RECURSIVE copyDir(_, _, _, _, _)
RECURSIVE copyAllLoop(_, _, _, _, _, _, _)

\* the loop of copyAll over files[i..]
copyAllLoop(fsSrc, src, fsDst, dst, files, i, st) ==
    IF i > Len(files) THEN Return(st, <<>>)
    ELSE LET from == PathJoin(src, files[i].name)
             to == PathJoin(dst, files[i].name)
         IN  Then(IF files[i].isDir THEN copyDir(fsSrc, from, fsDst, to, st)
                  ELSE InteropCopyFile(fsSrc, from, fsDst, to, st), LAMBDA s1 :
                 IF s1.err # NilErr THEN s1
                 ELSE copyAllLoop(fsSrc, src, fsDst, dst, files, i + 1, s1))

\* copyAll of package interop
copyAll(fsSrc, src, fsDst, dst, st) ==
    Then(OnFacade("src", st, ReadDir(fsSrc, src, st)), LAMBDA s1 :
        IF s1.err # NilErr THEN s1
        ELSE copyAllLoop(fsSrc, src, fsDst, dst, s1.val, 1, s1))

\* copyDir of package interop: the result of fsDst.CreateDirectory(dst) is
\* not looked at
copyDir(fsSrc, src, fsDst, dst, st) ==
    Then(OnFacade("dst", st, CreateDirectory(fsDst, dst, st)), LAMBDA s1 :
        copyAll(fsSrc, src, fsDst, dst, s1))

\* interop.CopyDir
InteropCopyDir(fsSrc, src, fsDst, dst, st) ==
    IF ~CanRead(fsSrc) THEN Fail(st, SrcNotReadable)
    ELSE IF ~CanWrite(fsDst) THEN Fail(st, DstNotWritable)
    ELSE copyDir(fsSrc, src, fsDst, dst, st)

\* interop.CopyAll
InteropCopyAll(fsSrc, src, fsDst, dst, st) ==
    IF ~CanRead(fsSrc) THEN Fail(st, SrcNotReadable)
    ELSE IF ~CanWrite(fsDst) THEN Fail(st, DstNotWritable)
    ELSE copyAll(fsSrc, src, fsDst, dst, st)

\* the two revisions of the move functions: move.go calls the exported copy
\* functions, the other revision the unexported ones
Revisions == {"exported", "unexported"}

\* moveFile that deletes the source whatever the copy returned
moveFileDeletesAnyway(rev, fsSrc, src, fsDst, dst, st) ==
    Then(CopyDone(IF rev = "exported"
                  THEN InteropCopyFile(fsSrc, src, fsDst, dst, st)
                  ELSE copyFile(fsSrc, src, fsDst, dst, st)), LAMBDA s1 :
        OnFacade("src", s1, DeleteFile(fsSrc, src, s1)))

\* moveFile, and the body of MoveFile in move.go after its checks
moveFile(rev, fsSrc, src, fsDst, dst, st) ==
    Then(CopyDone(IF rev = "exported"
                  THEN InteropCopyFile(fsSrc, src, fsDst, dst, st)
                  ELSE copyFile(fsSrc, src, fsDst, dst, st)), LAMBDA s1 :
        IF s1.err # NilErr THEN s1
        ELSE OnFacade("src", s1, DeleteFile(fsSrc, src, s1)))

\* moveDir, and the body of MoveDir in move.go after its checks
moveDir(rev, fsSrc, src, fsDst, dst, st) ==
    Then(CopyDone(IF rev = "exported"
                  THEN InteropCopyDir(fsSrc, src, fsDst, dst, st)
                  ELSE copyDir(fsSrc, src, fsDst, dst, st)), LAMBDA s1 :
        IF s1.err # NilErr THEN s1
        ELSE OnFacade("src", s1, DeleteDirectory(fsSrc, src, TRUE, s1)))

\* interop.MoveFile
InteropMoveFile(rev, fsSrc, src, fsDst, dst, st) ==
    IF ~CanWrite(fsSrc) THEN Fail(st, SrcNotWritable)
    ELSE IF ~CanWrite(fsDst) THEN Fail(st, DstNotWritable)
    ELSE moveFile(rev, fsSrc, src, fsDst, dst, st)

\* interop.MoveDir
InteropMoveDir(rev, fsSrc, src, fsDst, dst, st) ==
    IF ~CanWrite(fsSrc) THEN Fail(st, SrcNotWritable)
    ELSE IF ~CanWrite(fsDst) THEN Fail(st, DstNotWritable)
    ELSE moveDir(rev, fsSrc, src, fsDst, dst, st)

\* interop.MoveAll
InteropMoveAll(rev, fsSrc, src, fsDst, dst, st) ==
    IF ~CanWrite(fsSrc) THEN Fail(st, SrcNotWritable)
    ELSE IF ~CanWrite(fsDst) THEN Fail(st, DstNotWritable)
    ELSE Then(CopyDone(IF rev = "exported"
                       THEN InteropCopyAll(fsSrc, src, fsDst, dst, st)
                       ELSE copyAll(fsSrc, src, fsDst, dst, st)), LAMBDA s1 :
             IF s1.err # NilErr THEN s1
             ELSE OnFacade("src", s1, CleanDir(fsSrc, src, s1)))

\* interop.Move: move.go goes on with the exported MoveFile and MoveDir, the
\* other revision with moveFile and moveDir
InteropMove(rev, fsSrc, src, fsDst, dst, st) ==
    IF ~CanWrite(fsSrc) THEN Fail(st, SrcNotWritable)
    ELSE IF ~CanWrite(fsDst) THEN Fail(st, DstNotWritable)
    ELSE Then(OnFacade("src", st, IsFile(fsSrc, src, st)), LAMBDA s1 :
             IF s1.err # NilErr THEN s1
             ELSE IF s1.val
             THEN IF rev = "exported" THEN InteropMoveFile(rev, fsSrc, src, fsDst, dst, s1)
                  ELSE moveFile(rev, fsSrc, src, fsDst, dst, s1)
             ELSE Then(OnFacade("src", s1, IsDir(fsSrc, src, s1)), LAMBDA s2 :
                 IF s2.err # NilErr THEN s2
                 ELSE IF s2.val
                 THEN IF rev = "exported"
                      THEN InteropMoveDir(rev, fsSrc, src, fsDst, dst, s2)
                      ELSE moveDir(rev, fsSrc, src, fsDst, dst, s2)
                 ELSE Fail(s2, ErrNotExists(src))))

\* the drivers of the two facades: one for reading only, one for reading and
\* writing, and the local driver
InteropDrivers ==
    {Value(ReadFileSystemDriver), Value(ReadWriteFileSystemDriver), LocalDriver}

\* the disks of the source: a file, an empty directory, a directory holding
\* a file, and a directory holding a directory and a file
InteropTrees ==
    { <<File("a")>>,
      <<Dir("a", <<>>)>>,
      <<Dir("a", <<File("b")>>)>>,
      <<Dir("a", <<Dir("a", <<>>), File("b")>>)>> }

\* the environments of a move: which driver call fails, if any, and whether
\* io.Copy fails
InteropEnvs == {Run(<<>>, k, io, <<"x">>) : k \in 0..(MaxFail + 3), io \in BOOLEAN}

InteropMoves == {"Move", "MoveFile", "MoveDir", "MoveAll"}

\* NewWithDriver(d) for the source facade
InteropInit ==
    /\ phase = "ready"
    /\ ctor = "NewWithDriver"
    /\ driverArg \in InteropDrivers
    /\ fs = NewWithDriverResult(driverArg)
    /\ flags0 = FlagsOf(fs)
    /\ tree \in InteropTrees
    /\ bytes = NoContent
    /\ calls = <<>>
    /\ last = NoCall
    /\ walkArgs = NoWalk
    /\ stack = <<>>
    /\ ret = NilErr
    /\ events = <<>>

\* one of the four move functions, from the facade fs to a second facade
CallInteropMove ==
    /\ phase = "ready"
    /\ \E op \in InteropMoves, rev \in Revisions, d \in InteropDrivers,
          src \in {<<"a">>, <<"b">>}, dst \in DstPaths, st \in InteropEnvs :
        \E fsDst \in {NewWithDriverResult(d)} :
            Invoke(op, <<fs, src, fsDst, dst>>,
                   CASE op = "Move" -> InteropMove(rev, fs, src, fsDst, dst, st)
                     [] op = "MoveFile" -> InteropMoveFile(rev, fs, src, fsDst, dst, st)
                     [] op = "MoveDir" -> InteropMoveDir(rev, fs, src, fsDst, dst, st)
                     [] op = "MoveAll" -> InteropMoveAll(rev, fs, src, fsDst, dst, st))

InteropNext == CallInteropMove \/ Continue

InteropSpec == InteropInit /\ [][InteropNext]_vars

InteropMoved == phase = "called" /\ last.op \in InteropMoves

\* the copies of the move that came back, as logged
CopySteps == {i \in DOMAIN last.io : last.io[i][1] = "copy step"}

\* the calls that delete on the source facade
SourceDeletes ==
    {i \in DOMAIN calls : calls[i].on = "src"
                            /\ calls[i].method \in {"DeleteFile", "DeleteDirectory"}}

\* the calls on the source facade that only read
SourceReads ==
    {i \in DOMAIN calls :
        /\ calls[i].on = "src"
        /\ \/ calls[i].method \in {"IsFile", "IsDir", "ReadDir"}
           \/ calls[i].method = "OpenFile" /\ calls[i].args[2] = OpenReadOnly}

\* C30: in interop.Move, MoveFile, MoveDir and MoveAll every delete on the
\* source facade comes after the copy returned nil; when the copy returned
\* an error no delete is issued on the source and every call made on the
\* source only reads, so its entries still exist; and unless both facades
\* can write the call returns ErrNotSupported without any driver call.
C30_DeleteOnlyAfterCopy ==
    InteropMoved =>
        /\ \A i \in SourceDeletes :
            \E j \in CopySteps : last.io[j][2] = NilErr /\ last.io[j][3] < i
        /\ \A j \in CopySteps :
            last.io[j][2] # NilErr =>
                /\ SourceDeletes = {}
                /\ \A i \in DOMAIN calls : calls[i].on = "src" => i \in SourceReads
                /\ last.err = last.io[j][2]
        /\ ~(CanWrite(last.args[1]) /\ CanWrite(last.args[3])) =>
                /\ last.err.kind = "ErrNotSupported"
                /\ calls = <<>>
                /\ CopySteps = {}

\* a MoveDir whose copy failed after it had read the source and created
\* the destination directory
C30_Witness ==
    /\ InteropMoved
    /\ last.op = "MoveDir"
    /\ \E j \in CopySteps : last.io[j][2] # NilErr /\ last.io[j][3] >= 3
    /\ \E i \in DOMAIN calls : calls[i].on = "dst" /\ calls[i].err = NilErr

===========================================================================
